---- MODULE Spec2Model ----
(***************************************************************************)
(* Node kits of Coin (src/src/nodekits/SoBaseKit.cpp): catalog-driven     *)
(* part slots, the part-path resolver findPart, the lazy builder          *)
(* makePart, the structural setPart, the by-name get/set/path operations,  *)
(* copyContents and the two stages of write.                               *)
(*                                                                         *)
(* The scene graph is a heap of nodes.  A node is a positive integer; the  *)
(* heap is a record of parallel sequences indexed by node:                 *)
(*   typ[n]   the node's runtime type                                      *)
(*   ch[n]    the node's SoChildList (for a list part: its items)          *)
(*   slot[n]  a kit's instancelist[1..]: the part fields' values           *)
(*   def[n]   a kit's instancelist[1..]: the part fields' isDefault flags  *)
(*   lt[n]    a list part's locked child types                             *)
(*   fld[n]   the node's own fields (a kit's: those that are no parts):    *)
(*            0 while they are default, the value read into them after     *)
(*   wd[n]    a kit's writedata: <<>> for NULL, else <<table, object>>     *)
(*   wref[n]  the node's write references, counted for the output          *)
(*   abort    an assert() of the code has failed                           *)
(***************************************************************************)
EXTENDS Integers, Sequences, FiniteSets, TLC

NULL == 0

\* Bounds of the model
MaxList == 3

MaxValues == 1

MaxBlocks == 2

MaxPasses == 2

MaxCenter == 2

MaxDepth == 3

\* SO_CATALOG_NAME_NOT_FOUND, the result of getPartNumber for an unknown name
NameNotFound == -1

-----------------------------------------------------------------------------
(* Runtime types and SoType::isDerivedFrom                                 *)

KitTypes == {"Top", "Sub", "Item", "Pair", "PairNull", "Twin", "Outer", "Loop"}

TypeParent ==
  [t \in {"SoNode", "SoShape", "SoCube", "SoColorIndex", "SoGroup", "SoSeparator",
          "SoPathSwitch", "SoTransformation", "SoMatrixTransform",
          "SoNodeKitListPart", "SoBaseKit", "Top", "Sub", "Item", "Pair", "PairNull", "Twin", "Outer", "Loop"} |->
     CASE t = "SoNode" -> "SoNode"
       [] t = "SoShape" -> "SoNode"
       [] t = "SoCube" -> "SoShape"
       [] t = "SoColorIndex" -> "SoNode"
       [] t = "SoGroup" -> "SoNode"
       [] t = "SoSeparator" -> "SoGroup"
       [] t = "SoPathSwitch" -> "SoGroup"
       [] t = "SoTransformation" -> "SoNode"
       [] t = "SoMatrixTransform" -> "SoTransformation"
       [] t = "SoNodeKitListPart" -> "SoNode"
       [] t = "SoBaseKit" -> "SoNode"
       [] OTHER -> "SoBaseKit"]

RECURSIVE isDerivedFrom(_, _)
isDerivedFrom(t, base) ==
  IF t = base THEN TRUE
  ELSE IF t = "SoNode" THEN FALSE
  ELSE isDerivedFrom(TypeParent[t], base)

\* node->getChildren() != NULL: groups, kits and list parts own a child list
hasChildList(t) ==
  \/ isDerivedFrom(t, "SoGroup")
  \/ isDerivedFrom(t, "SoBaseKit")
  \/ t = "SoNodeKitListPart"

-----------------------------------------------------------------------------
(* Catalogs.  Entry 0 ("this") is implicit; entries 1.. are the parts.     *)

Entry(nm, ty, dty, nbd, lf, par, rs, lst, its, pub) ==
  [name |-> nm, type |-> ty, deftype |-> dty, nullbydefault |-> nbd, leaf |-> lf,
   parent |-> par, rsib |-> rs, islist |-> lst, items |-> its, public |-> pub]

\* A kit with a two-level interior and siblings whose catalog order differs
\* from their right-sibling order:
\*   this -> topSeparator -> (transform, geomSeparator -> (colorIndex, shape, sub))
TopCatalog ==
  << Entry("topSeparator",  "SoSeparator",      "SoSeparator",       TRUE,  FALSE, 0, -1, FALSE, <<>>, FALSE),
     Entry("geomSeparator", "SoSeparator",      "SoSeparator",       TRUE,  FALSE, 1, -1, FALSE, <<>>, TRUE),
     Entry("shape",         "SoShape",          "SoCube",            FALSE, TRUE,  2,  5, FALSE, <<>>, TRUE),
     Entry("transform",     "SoTransformation", "SoMatrixTransform", TRUE,  TRUE,  1,  2, FALSE, <<>>, TRUE),
     Entry("sub",           "Sub",              "Sub",               TRUE,  TRUE,  2, -1, FALSE, <<>>, TRUE),
     Entry("colorIndex",    "SoColorIndex",     "SoColorIndex",      TRUE,  TRUE,  2,  3, FALSE, <<>>, TRUE) >>

\* A kit whose only part is a list of Item kits
SubCatalog ==
  << Entry("b", "SoNodeKitListPart", "SoNodeKitListPart", TRUE, TRUE, 0, -1, TRUE, <<"Item">>, TRUE) >>

\* The kits held by the list
ItemCatalog ==
  << Entry("p", "SoCube", "SoCube", TRUE, TRUE, 0, -1, FALSE, <<>>, TRUE) >>

\* A kit of two public parts, the shape below the separator, both made by
\* the constructor
PairCatalog ==
  << Entry("topSeparator", "SoSeparator", "SoSeparator", FALSE, FALSE, 0, -1, FALSE, <<>>, TRUE),
     Entry("shape",        "SoShape",     "SoCube",      FALSE, TRUE,  1, -1, FALSE, <<>>, TRUE) >>

\* The same kit with a part topSeparator that is null by default and a plain
\* group: the constructor makes it as the parent of the shape
PairNullCatalog ==
  << Entry("topSeparator", "SoGroup",     "SoGroup",     TRUE,  FALSE, 0, -1, FALSE, <<>>, TRUE),
     Entry("shape",        "SoShape",     "SoCube",      FALSE, TRUE,  1, -1, FALSE, <<>>, TRUE) >>

\* A kit of two leaf parts of the same type, a separator, below the kit
\* itself, the first made by the constructor
TwinCatalog ==
  << Entry("left",  "SoSeparator", "SoSeparator", FALSE, TRUE, 0,  2, FALSE, <<>>, TRUE),
     Entry("right", "SoSeparator", "SoSeparator", TRUE,  TRUE, 0, -1, FALSE, <<>>, TRUE) >>

\* A kit whose only part is a kit of its own, made by the constructor
OuterCatalog ==
  << Entry("inner", "Sub", "Sub", FALSE, TRUE, 0, -1, FALSE, <<>>, TRUE) >>

\* A kit whose only part is a kit of its own type, null by default
LoopCatalog ==
  << Entry("sub", "Loop", "Loop", TRUE, TRUE, 0, -1, FALSE, <<>>, TRUE) >>

\* the catalogs of the kit classes, as initClass() of every class builds them
classcatalog ==
  [t \in KitTypes |->
     CASE t = "Top" -> TopCatalog
       [] t = "Sub" -> SubCatalog
       [] t = "Item" -> ItemCatalog
       [] t = "Pair" -> PairCatalog
       [] t = "PairNull" -> PairNullCatalog
       [] t = "Twin" -> TwinCatalog
       [] t = "Outer" -> OuterCatalog
       [] t = "Loop" -> LoopCatalog]

\* kit->getNodekitCatalog() of a kit of type t: the static catalog of its
\* class, which the heap h holds; no other node has a catalog
getNodekitCatalog(h, t) == IF t \in KitTypes THEN h.cat[t] ELSE <<>>

\* catalog->isPublic(i), catalog->isLeaf(i); entry 0 is private and has
\* the parts below it
isPublic(cat, i) == IF i = 0 THEN FALSE ELSE cat[i].public

isLeaf(cat, i) == IF i = 0 THEN Len(cat) = 0 ELSE cat[i].leaf

\* catalog->getPartNumber(name)
getPartNumber(cat, nm) ==
  IF nm = "this" THEN 0
  ELSE IF \E i \in 1..Len(cat) : cat[i].name = nm
       THEN CHOOSE i \in 1..Len(cat) : cat[i].name = nm
       ELSE NameNotFound

-----------------------------------------------------------------------------
(* The heap                                                                *)

EmptyHeap ==
  [typ |-> <<>>, ch |-> <<>>, slot |-> <<>>, def |-> <<>>, lt |-> <<>>, fld |-> <<>>, wd |-> <<>>,
   wref |-> <<>>, ref |-> <<>>, abort |-> FALSE, overflow |-> FALSE, cat |-> classcatalog]

Res(h, r) == [h |-> h, ret |-> r]

\* a failed assert(): the process stops
Abort(h) == [h |-> [h EXCEPT !.abort = TRUE], ret |-> FALSE]

\* a recursion that goes on below the depth MaxDepth: the call does not
\* return, the process stops when its stack is used up
Overflow(h) == [h |-> [h EXCEPT !.abort = TRUE, !.overflow = TRUE], ret |-> FALSE]

isKit(h, n) == n # NULL /\ isDerivedFrom(h.typ[n], "SoBaseKit")

NumParts(h, kit) == Len(getNodekitCatalog(h, h.typ[kit]))

\* a new node of type t with an empty child list, default fields, no
\* writedata and, for a kit, one empty default-flagged field per catalog entry
Alloc(h, t) ==
  LET n == Len(getNodekitCatalog(h, t)) IN
  Res([h EXCEPT !.typ = Append(@, t),
                !.ch = Append(@, <<>>),
                !.slot = Append(@, [i \in 1..n |-> NULL]),
                !.def = Append(@, [i \in 1..n |-> TRUE]),
                !.lt = Append(@, <<>>),
                !.fld = Append(@, 0),
                !.wd = Append(@, <<>>),
                !.wref = Append(@, 0),
                !.ref = Append(@, 0)], Len(h.typ) + 1)

\* node->ref(), node->unref() of an operation that holds the node for a
\* while: h.ref counts the references to a node that no field and no child
\* list holds
ref(h, node) == [h EXCEPT !.ref[node] = @ + 1]

unref(h, node) == [h EXCEPT !.ref[node] = @ - 1]

-----------------------------------------------------------------------------
(* SoChildList                                                             *)

\* childlist->find(node): 0-based index, -1 when absent
find(list, node) ==
  IF \E i \in 1..Len(list) : list[i] = node
  THEN (CHOOSE i \in 1..Len(list) : list[i] = node /\ \A j \in 1..(i-1) : list[j] # node) - 1
  ELSE -1

\* childlist->set(idx, node)
listSet(list, idx, node) == [list EXCEPT ![idx + 1] = node]

\* childlist->remove(idx)
listRemove(list, idx) == SubSeq(list, 1, idx) \o SubSeq(list, idx + 2, Len(list))

\* childlist->insert(node, idx)
listInsert(list, node, idx) == SubSeq(list, 1, idx) \o <<node>> \o SubSeq(list, idx + 1, Len(list))

-----------------------------------------------------------------------------
(* SoNodeKitListPart: an ordered list of children of the locked types      *)

getNumChildren(h, list) == Len(h.ch[list])

\* list->getChild(idx)
getChild(h, list, idx) == h.ch[list][idx + 1]

isTypePermitted(h, list, t) ==
  \E i \in 1..Len(h.lt[list]) : isDerivedFrom(t, h.lt[list][i])

canCreateDefaultChild(h, list) == Len(h.lt[list]) > 0

\* list->addChild(node): a node of a type that is not permitted is not added
addChildInFront(h, list, node) ==
  IF node # NULL /\ isTypePermitted(h, list, h.typ[node])
  THEN [h EXCEPT !.ch[list] = <<node>> \o @]
  ELSE h

addChild(h, list, node) ==
  IF node # NULL /\ isTypePermitted(h, list, h.typ[node])
  THEN [h EXCEPT !.ch[list] = Append(@, node)]
  ELSE h

\* list->replaceChild(idx, node)
replaceChild(h, list, idx, node) ==
  IF node # NULL /\ isTypePermitted(h, list, h.typ[node])
  THEN [h EXCEPT !.ch[list] = listSet(@, idx, node)]
  ELSE h

-----------------------------------------------------------------------------
(* The lazy builder and setPart                                            *)

RECURSIVE rightSiblingWalk(_, _, _)
rightSiblingWalk(h, kit, sibling) ==
  IF sibling >= 0 /\ h.slot[kit][sibling] = NULL
  THEN rightSiblingWalk(h, kit, getNodekitCatalog(h, h.typ[kit])[sibling].rsib)
  ELSE sibling

\* part number of the nearest existing right sibling, -1 if none exists
getRightSiblingIndex(h, kit, partnum) ==
  rightSiblingWalk(h, kit, getNodekitCatalog(h, h.typ[kit])[partnum].rsib)

\* SoSFNode::setValue(node): stores the value; a field that is written is
\* no longer default
fieldSetValueKeepsFlag(h, kit, partnum, node) ==
  [h EXCEPT !.slot[kit][partnum] = node]

fieldSetValue(h, kit, partnum, node) ==
  [h EXCEPT !.slot[kit][partnum] = node, !.def[kit][partnum] = FALSE]

\* the splice of setPart: where the node goes in the parent's child list
spliceChild(h, kit, partnum, parent, oldnode, node) ==
  LET \* part exists, replace
      replace(oldIdx) ==
        IF oldIdx < 0 THEN Abort(h)
        ELSE IF node # NULL
             THEN Res([h EXCEPT !.ch[parent] = listSet(@, oldIdx, node)], TRUE)
             ELSE Res([h EXCEPT !.ch[parent] = listRemove(@, oldIdx)], TRUE)
      insertAt(idx) ==
        IF idx < 0 THEN Abort(h)
        ELSE Res([h EXCEPT !.ch[parent] = listInsert(@, node, idx)], TRUE)
      \* find where to insert in parent childlist
      insert(rightSibling) ==
        IF rightSibling >= 0
        THEN insertAt(find(h.ch[parent], h.slot[kit][rightSibling]))
        ELSE Res([h EXCEPT !.ch[parent] = Append(@, node)], TRUE)
  IN
  IF oldnode # NULL THEN replace(find(h.ch[parent], oldnode))
  ELSE IF node # NULL THEN insert(getRightSiblingIndex(h, kit, partnum))
  ELSE Res(h, TRUE)

\* the type test of setPart
typeMismatch(h, kit, partnum, node) ==
  node # NULL /\ ~isDerivedFrom(h.typ[node], getNodekitCatalog(h, h.typ[kit])[partnum].type)

RECURSIVE setPart(_, _, _, _), makePart(_, _, _), createInstance(_, _), createDefaultPartsFrom(_, _, _)

\* a setPart that tests the type only after it has made the parent part
setPartLateTypeTest(h, kit, partnum, node) ==
  LET parentIdx == getNodekitCatalog(h, h.typ[kit])[partnum].parent
      setValue(s) ==
        IF s.h.abort THEN s
        ELSE Res(fieldSetValue(s.h, kit, partnum, node), TRUE)
      splice(h1, parent) ==
        IF h1.abort THEN Res(h1, FALSE)
        ELSE IF parent = NULL \/ ~hasChildList(h1.typ[parent]) THEN Abort(h1)
        ELSE IF typeMismatch(h1, kit, partnum, node) THEN Res(h1, FALSE)
        ELSE IF h1.slot[kit][partnum] = node THEN Res(h1, TRUE)
        ELSE IF find(h1.ch[parent], node) >= 0 THEN Res(h1, FALSE)
        ELSE setValue(spliceChild(h1, kit, partnum, parent, h1.slot[kit][partnum], node))
      withParent(h1) == splice(h1, IF parentIdx = 0 THEN kit ELSE h1.slot[kit][parentIdx])
  IN
  IF h.abort THEN Res(h, FALSE)
  ELSE IF ~(partnum > 0 /\ partnum <= NumParts(h, kit)) THEN Abort(h)
  ELSE withParent(IF parentIdx # 0 /\ h.slot[kit][parentIdx] = NULL
                  THEN makePart(h, kit, parentIdx).h
                  ELSE h)

\* kit->setPart(partnum, node)
setPart(h, kit, partnum, node) ==
  LET parentIdx == getNodekitCatalog(h, h.typ[kit])[partnum].parent
      setValue(s) ==
        IF s.h.abort THEN s
        ELSE Res(fieldSetValue(s.h, kit, partnum, node), TRUE)
      \* h1 is the heap with the parent part, parent its node
      splice(h1, parent) ==
        IF h1.abort THEN Res(h1, FALSE)
        ELSE IF parent = NULL \/ ~hasChildList(h1.typ[parent]) THEN Abort(h1)
        ELSE IF h1.slot[kit][partnum] = node THEN Res(h1, TRUE)  \* part is already inserted
        ELSE IF find(h1.ch[parent], node) >= 0 THEN Res(h1, FALSE)
        ELSE setValue(spliceChild(h1, kit, partnum, parent, h1.slot[kit][partnum], node))
      withParent(h1) == splice(h1, IF parentIdx = 0 THEN kit ELSE h1.slot[kit][parentIdx])
  IN
  IF h.abort THEN Res(h, FALSE)
  ELSE IF ~(partnum > 0 /\ partnum <= NumParts(h, kit)) THEN Abort(h)
  ELSE IF typeMismatch(h, kit, partnum, node) THEN Res(h, FALSE)
  ELSE withParent(IF parentIdx # 0 /\ h.slot[kit][parentIdx] = NULL
                  THEN makePart(h, kit, parentIdx).h
                  ELSE h)

\* kit->makePart(partnum): makes the part, connected in the scene
makePart(h, kit, partnum) ==
  LET e == getNodekitCatalog(h, h.typ[kit])[partnum]
      connect(c) ==
        setPart(IF e.islist THEN [c.h EXCEPT !.lt[c.ret] = e.items] ELSE c.h, kit, partnum, c.ret)
  IN
  IF h.abort THEN Res(h, FALSE)
  ELSE IF ~(partnum > 0 /\ partnum <= NumParts(h, kit)) THEN Abort(h)
  ELSE IF h.slot[kit][partnum] # NULL THEN Abort(h)
  ELSE connect(createInstance(h, e.deftype))

\* a loop of createDefaultParts that leaves the field of a part it makes as
\* makePart left it
createDefaultPartsUnflagged(h, kit, i) ==
  IF h.abort \/ i > NumParts(h, kit) THEN h
  ELSE IF h.slot[kit][i] = NULL /\ ~getNodekitCatalog(h, h.typ[kit])[i].nullbydefault
       THEN createDefaultPartsFrom(makePart(h, kit, i).h, kit, i + 1)
       ELSE createDefaultPartsFrom(h, kit, i + 1)

\* the loop of createDefaultParts, from part i on
createDefaultPartsFrom(h, kit, i) ==
  LET next(m) ==
        createDefaultPartsFrom(IF m.abort THEN m ELSE [m EXCEPT !.def[kit][i] = TRUE], kit, i + 1)
  IN
  IF h.abort \/ i > NumParts(h, kit) THEN h
  ELSE IF h.slot[kit][i] = NULL /\ ~getNodekitCatalog(h, h.typ[kit])[i].nullbydefault
       THEN next(makePart(h, kit, i).h)
       ELSE createDefaultPartsFrom(h, kit, i + 1)

createDefaultParts(h, kit) == createDefaultPartsFrom(h, kit, 1)

\* type.createInstance(): the constructor of a kit makes its default parts
createInstance(h, t) ==
  LET construct(a) ==
        IF t \in KitTypes THEN Res(createDefaultParts(a.h, a.ret), a.ret) ELSE a
  IN construct(Alloc(h, t))

\* list->getContainerNode(): the group that holds the items is not a node of
\* the heap of its own; it is named by the negated list node
getContainerNode(list) == 0 - list

\* list->createAndAddDefaultChild()
createAndAddDefaultChild(h, list) ==
  LET add(c) == Res([c.h EXCEPT !.ch[list] = Append(@, c.ret)], c.ret) IN
  IF ~canCreateDefaultChild(h, list) THEN Res(h, NULL)
  ELSE add(createInstance(h, h.lt[list][1]))

-----------------------------------------------------------------------------
(* Part names.  A part name is a string, modelled as a sequence of tokens: *)
(* a token is a name, ".", "[", "]", "-" or a digit.                       *)

Digits == <<"0", "1", "2", "3", "4", "5", "6", "7", "8", "9">>

isDigit(tok) == \E d \in 1..10 : Digits[d] = tok

digitValue(tok) == (CHOOSE d \in 1..10 : Digits[d] = tok) - 1

\* strchr(stringptr, c): 1-based position of the first c, 0 (NULL) if none
strchr(str, c) ==
  IF \E i \in 1..Len(str) : str[i] = c
  THEN CHOOSE i \in 1..Len(str) : str[i] = c /\ \A j \in 1..(i-1) : str[j] # c
  ELSE 0

RECURSIVE strtolDigits(_, _, _)
strtolDigits(str, pos, acc) ==
  IF pos <= Len(str) /\ isDigit(str[pos])
  THEN strtolDigits(str, pos + 1, acc * 10 + digitValue(str[pos]))
  ELSE acc

\* strtol(str + pos - 1, NULL, 10): optional sign, then the digits that
\* follow; 0 when there is none
strtol(str, pos) ==
  IF pos <= Len(str) /\ str[pos] = "-" THEN 0 - strtolDigits(str, pos + 1, 0)
  ELSE IF pos <= Len(str) /\ str[pos] = "+" THEN strtolDigits(str, pos + 1, 0)
  ELSE strtolDigits(str, pos, 0)

\* SbString::getSubString(startidx, endidx) with 0-based inclusive indices;
\* endidx = -1 means up to the end of the string
getSubString(str, startidx, endidx) ==
  IF endidx = -1 THEN SubSeq(str, startidx + 1, Len(str))
  ELSE SubSeq(str, startidx + 1, endidx + 1)

\* the catalog lookup of the first part name of a compound name
lookupName(cat, firstpartname) ==
  IF Len(firstpartname) = 1 THEN getPartNumber(cat, firstpartname[1]) ELSE NameNotFound

-----------------------------------------------------------------------------
(* findPart.  The by-reference arguments kit, partnum, islist, listidx and *)
(* the path under construction travel in the record st together with the   *)
(* heap; ret is the result of the call.                                    *)

FindArgs(h, kit, usepath) ==
  [h |-> h, ret |-> FALSE, kit |-> kit, partnum |-> -1, islist |-> FALSE, listidx |-> -1,
   usepath |-> usepath, path |-> IF usepath THEN <<kit>> ELSE <<>>, depth |-> 0]

\* the nodes from the kit down to (not including) the part, root first
RECURSIVE nodesToPart(_, _, _, _)
nodesToPart(h, kit, parent, acc) ==
  IF parent > 0 /\ h.slot[kit][parent] # NULL
  THEN nodesToPart(h, kit, getNodekitCatalog(h, h.typ[kit])[parent].parent, <<h.slot[kit][parent]>> \o acc)
  ELSE acc

\* the asserts of the path extension: with makeifneeded every ancestor part
\* of the part exists
RECURSIVE ancestorsExist(_, _, _)
ancestorsExist(h, kit, parent) ==
  IF parent <= 0 THEN TRUE
  ELSE IF h.slot[kit][parent] = NULL THEN FALSE
  ELSE ancestorsExist(h, kit, getNodekitCatalog(h, h.typ[kit])[parent].parent)

\* a resolution of "this" that leaves the part number as it was passed in
findThisKeepsPartNumber(st) == [st EXCEPT !.islist = FALSE, !.ret = TRUE]

\* partname == "this"
findThis(st) == [st EXCEPT !.islist = FALSE, !.partnum = 0, !.ret = TRUE]

\* the step of findPart through list element listidx of the list part node
stepIntoList(st, list, makeifneeded) ==
  LET numlistchildren == getNumChildren(st.h, list)
      into(c) ==
        IF st.listidx >= getNumChildren(c.h, list) \/ ~isKit(c.h, getChild(c.h, list, st.listidx))
        THEN [st EXCEPT !.h = Abort(c.h).h, !.ret = FALSE]
        ELSE [st EXCEPT !.h = c.h, !.ret = TRUE, !.kit = getChild(c.h, list, st.listidx),
                        !.path = IF st.usepath THEN @ \o <<list, getContainerNode(list)>> ELSE @]
  IN
  IF st.listidx < 0 \/ st.listidx > numlistchildren \/ (~makeifneeded /\ st.listidx = numlistchildren)
  THEN [st EXCEPT !.ret = FALSE]
  ELSE into(createAndAddDefaultChild(st.h, list))

RECURSIVE findPart(_, _, _, _), searchLeafKits(_, _, _, _, _, _)

\* a search of the leaf nodekits that leaves the kits it made where they are
RECURSIVE searchLeafKitsKeepsKits(_, _, _, _, _, _)
searchLeafKitsKeepsKits(st, orgkit, i, partname, makeifneeded, recsearch) ==
  LET cat == getNodekitCatalog(st.h, st.h.typ[orgkit])
      tried(f) ==
        IF f.ret THEN f
        ELSE searchLeafKitsKeepsKits([f EXCEPT !.depth = st.depth], orgkit, i + 1,
                                     partname, makeifneeded, recsearch)
      search(h1) ==
        IF h1.abort \/ h1.slot[orgkit][i] = NULL
        THEN [st EXCEPT !.h = Abort(h1).h, !.ret = FALSE]
        ELSE tried(findPart([st EXCEPT !.h = h1, !.kit = h1.slot[orgkit][i], !.depth = @ + 1],
                            partname, makeifneeded, recsearch))
  IN
  IF st.h.abort THEN [st EXCEPT !.ret = FALSE]
  ELSE IF i > Len(cat) THEN [st EXCEPT !.kit = orgkit, !.ret = FALSE]
  ELSE IF cat[i].leaf /\ isDerivedFrom(cat[i].type, "SoBaseKit")
  THEN search(IF st.h.slot[orgkit][i] # NULL THEN st.h ELSE makePart(st.h, orgkit, i).h)
  ELSE searchLeafKitsKeepsKits(st, orgkit, i + 1, partname, makeifneeded, recsearch)

\* the search of the leaf nodekits of orgkit for partname, from part i on
searchLeafKits(st, orgkit, i, partname, makeifneeded, recsearch) ==
  LET cat == getNodekitCatalog(st.h, st.h.typ[orgkit])
      tried(f, didexist) ==
        IF f.ret THEN f
        ELSE IF ~didexist
        THEN \* we created this part, remove it
             searchLeafKits([f EXCEPT !.h = setPart(f.h, orgkit, i, NULL).h, !.depth = st.depth],
                            orgkit, i + 1, partname, makeifneeded, recsearch)
        ELSE searchLeafKits([f EXCEPT !.depth = st.depth], orgkit, i + 1,
                            partname, makeifneeded, recsearch)
      search(h1, didexist) ==
        IF h1.abort \/ h1.slot[orgkit][i] = NULL
        THEN [st EXCEPT !.h = Abort(h1).h, !.ret = FALSE]
        ELSE tried(findPart([st EXCEPT !.h = h1, !.kit = h1.slot[orgkit][i], !.depth = @ + 1],
                            partname, makeifneeded, recsearch), didexist)
      inKit(didexist) ==
        IF ~didexist /\ st.depth >= MaxDepth
        THEN [st EXCEPT !.h = Overflow(st.h).h, !.ret = FALSE]
        ELSE search(IF didexist THEN st.h ELSE makePart(st.h, orgkit, i).h, didexist)
  IN
  IF st.h.abort THEN [st EXCEPT !.ret = FALSE]
  ELSE IF i > Len(cat) THEN [st EXCEPT !.kit = orgkit, !.ret = FALSE]
  ELSE IF cat[i].leaf /\ isDerivedFrom(cat[i].type, "SoBaseKit")
  THEN inKit(st.h.slot[orgkit][i] # NULL)
  ELSE searchLeafKits(st, orgkit, i + 1, partname, makeifneeded, recsearch)

findPart(st, partname, makeifneeded, recsearch) ==
  LET kit == st.kit
      cat == getNodekitCatalog(st.h, st.h.typ[st.kit])
      \* recurse
      recurse(st3, newpartname) ==
        IF ~st3.ret THEN st3
        ELSE findPart([st3 EXCEPT !.path = IF st.usepath THEN @ \o <<st3.kit>> ELSE @],
                      newpartname, makeifneeded, recsearch)
      step(st2, node, periodptr) ==
        recurse(IF st2.islist
                THEN IF st2.h.typ[node] = "SoNodeKitListPart"
                     THEN stepIntoList(st2, node, makeifneeded)
                     ELSE [st2 EXCEPT !.h = Abort(st2.h).h, !.ret = FALSE]
                ELSE IF isKit(st2.h, node)
                     THEN [st2 EXCEPT !.kit = node, !.ret = TRUE]
                     ELSE [st2 EXCEPT !.h = Abort(st2.h).h, !.ret = FALSE],
                SubSeq(partname, periodptr + 1, Len(partname)))
      \* the part is found (and made); st2 holds the heap and the path to it
      found(st2, partnum, periodptr) ==
        IF st2.h.abort THEN [st2 EXCEPT !.ret = FALSE]
        ELSE IF st.usepath /\ makeifneeded /\ ~ancestorsExist(st2.h, kit, cat[partnum].parent)
        THEN [st2 EXCEPT !.h = Abort(st2.h).h, !.ret = FALSE]
        ELSE IF periodptr = 0 THEN [st2 EXCEPT !.ret = TRUE]
        ELSE IF st2.h.slot[kit][partnum] = NULL THEN [st2 EXCEPT !.ret = FALSE]
        ELSE step(st2, st2.h.slot[kit][partnum], periodptr)
      made(st1, h1, partnum, periodptr) ==
        found([st1 EXCEPT !.h = h1, !.partnum = partnum,
                          !.path = IF st.usepath
                                   THEN @ \o nodesToPart(h1, kit, cat[partnum].parent, <<>>)
                                   ELSE @],
              partnum, periodptr)
      lookedUp(st1, partnum, periodptr) ==
        IF partnum = NameNotFound
        THEN IF recsearch
             THEN IF st.usepath THEN [st1 EXCEPT !.h = Abort(st.h).h, !.ret = FALSE]
                  ELSE searchLeafKits([st1 EXCEPT !.partnum = partnum], kit, 1,
                                      partname, makeifneeded, recsearch)
             ELSE [st1 EXCEPT !.partnum = partnum, !.ret = FALSE]
        ELSE IF partnum = 0 THEN [st1 EXCEPT !.partnum = 0, !.h = Abort(st.h).h, !.ret = FALSE]
        ELSE made(st1,
                  IF makeifneeded /\ st.h.slot[kit][partnum] = NULL
                  THEN makePart(st.h, kit, partnum).h
                  ELSE st.h,
                  partnum, periodptr)
      parsed(periodptr, startbracket) ==
        lookedUp(IF startbracket # 0
                 THEN [st EXCEPT !.islist = TRUE, !.listidx = strtol(partname, startbracket + 1)]
                 ELSE [st EXCEPT !.islist = FALSE],
                 lookupName(cat, IF startbracket # 0 THEN getSubString(partname, 0, startbracket - 2)
                                 ELSE IF periodptr # 0 THEN getSubString(partname, 0, periodptr - 2)
                                 ELSE partname),
                 periodptr)
      scanned(periodptr, bracket) ==
        parsed(periodptr, IF periodptr # 0 /\ bracket > periodptr THEN 0 ELSE bracket)
  IN
  IF st.h.abort THEN [st EXCEPT !.ret = FALSE]
  ELSE IF partname = <<"this">> THEN findThis(st)
  ELSE scanned(strchr(partname, "."), strchr(partname, "["))

-----------------------------------------------------------------------------
(* The by-name operations                                                  *)

\* a getAnyPart that makes a list child for every index from the length on
getAnyPartPastEnd(h, kit0, partname, makeifneeded, leafcheck, publiccheck) ==
  LET element(f, list) ==
        IF f.h.typ[list] # "SoNodeKitListPart" THEN Abort(f.h)
        ELSE IF f.listidx >= 0 /\ f.listidx < getNumChildren(f.h, list)
             THEN Res(f.h, getChild(f.h, list, f.listidx))
        ELSE IF makeifneeded /\ f.listidx >= getNumChildren(f.h, list)
             THEN createAndAddDefaultChild(f.h, list)
        ELSE Res(f.h, NULL)
      part(f, partnode) ==
        IF ~f.islist THEN Res(f.h, partnode)
        ELSE IF partnode = NULL THEN Res(f.h, NULL)
        ELSE element(f, partnode)
      checked(f, cat) ==
        IF f.h.abort \/ ~f.ret THEN Res(f.h, NULL)
        ELSE IF publiccheck /\ ~isPublic(cat, f.partnum) THEN Res(f.h, NULL)
        ELSE IF leafcheck /\ ~isLeaf(cat, f.partnum) THEN Res(f.h, NULL)
        ELSE IF f.partnum = 0 THEN Abort(f.h)
        ELSE part(f, f.h.slot[f.kit][f.partnum])
      resolved(f) == checked(f, getNodekitCatalog(f.h, f.h.typ[f.kit]))
  IN resolved(findPart(FindArgs(h, kit0, FALSE), partname, makeifneeded, TRUE))

\* kit->getAnyPart(partname, makeifneeded, leafcheck, publiccheck)
getAnyPart(h, kit0, partname, makeifneeded, leafcheck, publiccheck) ==
  LET element(f, list) ==
        IF f.h.typ[list] # "SoNodeKitListPart" THEN Abort(f.h)
        ELSE IF f.listidx >= 0 /\ f.listidx < getNumChildren(f.h, list)
             THEN Res(f.h, getChild(f.h, list, f.listidx))
        ELSE IF makeifneeded /\ f.listidx = getNumChildren(f.h, list)
             THEN createAndAddDefaultChild(f.h, list)
        ELSE Res(f.h, NULL)
      part(f, partnode) ==
        IF ~f.islist THEN Res(f.h, partnode)
        ELSE IF partnode = NULL THEN Res(f.h, NULL)
        ELSE element(f, partnode)
      checked(f, cat) ==
        IF f.h.abort \/ ~f.ret THEN Res(f.h, NULL)
        ELSE IF publiccheck /\ ~isPublic(cat, f.partnum) THEN Res(f.h, NULL)
        ELSE IF leafcheck /\ ~isLeaf(cat, f.partnum) THEN Res(f.h, NULL)
        ELSE IF f.partnum = 0 THEN Abort(f.h)
        ELSE part(f, f.h.slot[f.kit][f.partnum])
      resolved(f) == checked(f, getNodekitCatalog(f.h, f.h.typ[f.kit]))
  IN resolved(findPart(FindArgs(h, kit0, FALSE), partname, makeifneeded, TRUE))

\* kit->getPart(partname, makeifneeded)
getPart(h, kit0, partname, makeifneeded) == getAnyPart(h, kit0, partname, makeifneeded, TRUE, TRUE)

\* a setAnyPart that sets private parts too, whatever anypart is
setAnyPartOfAnyPart(h, kit0, partname, from, anypart) ==
  LET element(f, list) ==
        IF list = NULL THEN Res(f.h, FALSE)
        ELSE IF f.h.typ[list] # "SoNodeKitListPart" THEN Abort(f.h)
        ELSE IF f.listidx >= 0 /\ f.listidx <= getNumChildren(f.h, list)
             THEN IF f.listidx = getNumChildren(f.h, list)
                  THEN Res(addChild(f.h, list, from), TRUE)
                  ELSE Res(replaceChild(f.h, list, f.listidx, from), TRUE)
        ELSE Res(f.h, FALSE)
      checked(f) ==
        IF f.h.abort \/ ~f.ret THEN Res(f.h, FALSE)
        ELSE IF ~f.islist THEN setPart(f.h, f.kit, f.partnum, from)
        ELSE IF f.partnum = 0 THEN Abort(f.h)
        ELSE element(f, f.h.slot[f.kit][f.partnum])
  IN checked(findPart(FindArgs(h, kit0, FALSE), partname, TRUE, TRUE))

\* kit->setAnyPart(partname, from, anypart)
setAnyPart(h, kit0, partname, from, anypart) ==
  LET element(f, list) ==
        IF list = NULL THEN Res(f.h, FALSE)
        ELSE IF f.h.typ[list] # "SoNodeKitListPart" THEN Abort(f.h)
        ELSE IF f.listidx >= 0 /\ f.listidx <= getNumChildren(f.h, list)
             THEN IF f.listidx = getNumChildren(f.h, list)
                  THEN Res(addChild(f.h, list, from), TRUE)
                  ELSE Res(replaceChild(f.h, list, f.listidx, from), TRUE)
        ELSE Res(f.h, FALSE)
      checked(f, cat) ==
        IF f.h.abort \/ ~f.ret THEN Res(f.h, FALSE)
        ELSE IF ~(anypart \/ isPublic(cat, f.partnum)) THEN Res(f.h, FALSE)
        ELSE IF ~f.islist THEN setPart(f.h, f.kit, f.partnum, from)
        ELSE IF f.partnum = 0 THEN Abort(f.h)
        ELSE element(f, f.h.slot[f.kit][f.partnum])
      resolved(f) == checked(f, getNodekitCatalog(f.h, f.h.typ[f.kit]))
  IN resolved(findPart(FindArgs(h, kit0, FALSE), partname, TRUE, TRUE))

\* kit->setPart(partname, from)
setPartByName(h, kit0, partname, from) == setAnyPart(h, kit0, partname, from, FALSE)

\* Field text.  The text of field values is a sequence of tokens as well:
\* " " is white space, "v" a field name with a value of its type, "x" text
\* that is neither, "{" and "}" the braces of a block.

\* skip_spaces(ptr): the position of the first token from ptr on that is no
\* white space
RECURSIVE skip_spaces(_, _)
skip_spaces(str, ptr) ==
  IF ptr <= Len(str) /\ str[ptr] = " " THEN skip_spaces(str, ptr + 1) ELSE ptr

\* find_partname_length(ptr): the number of tokens before the first white
\* space, brace or end of the text
RECURSIVE find_partname_length(_, _)
find_partname_length(str, ptr) ==
  IF ptr <= Len(str) /\ str[ptr] \notin {" ", "{", "}"}
  THEN 1 + find_partname_length(str, ptr + 1)
  ELSE 0

\* SbString(ptr, 0, len - 1): the len tokens from ptr on; the rest of the
\* text when the end index is -1
partnameAt(str, ptr, len) ==
  IF len = 0 THEN SubSeq(str, ptr, Len(str)) ELSE SubSeq(str, ptr, ptr + len - 1)

\* node->getFieldData()->read(in, node, TRUE, dummy) from position ptr of the
\* text: every field read takes its value at once; the read ends before a
\* closing brace or at the end of the text, and fails at text that is no
\* field.  pos is the position after the tokens read.
RECURSIVE readFields(_, _, _, _)
readFields(h, node, str, ptr) ==
  IF ptr > Len(str) \/ str[ptr] = "}" THEN [h |-> h, ret |-> TRUE, pos |-> ptr]
  ELSE IF str[ptr] = " " THEN readFields(h, node, str, ptr + 1)
  ELSE IF str[ptr] = "v" THEN readFields([h EXCEPT !.fld[node] = 1], node, str, ptr + 1)
  ELSE [h |-> h, ret |-> FALSE, pos |-> ptr]

\* kit->set(partnamestring, parameterstring)
setFields(h, kit0, partname, parameterstring) ==
  LET read(h2, node) ==
        IF node = NULL THEN Res(h2, FALSE)
        ELSE LET r == readFields(h2, node, parameterstring, 1) IN Res(r.h, r.ret)
      \* h1 is the heap with the default flag of the part cleared
      fields(f, h1, node) ==
        IF node = NULL THEN Abort(h1)
        ELSE IF ~f.islist THEN read(h1, node)
        ELSE IF h1.typ[node] # "SoNodeKitListPart" THEN Abort(h1)
        ELSE IF f.listidx < 0 \/ f.listidx > getNumChildren(h1, node) THEN Res(h1, FALSE)
        ELSE IF f.listidx = getNumChildren(h1, node)
             THEN IF ~canCreateDefaultChild(h1, node) THEN Res(h1, FALSE)
                  ELSE LET c == createAndAddDefaultChild(h1, node) IN read(c.h, c.ret)
        ELSE read(h1, getChild(h1, node, f.listidx))
      resolved(f) ==
        IF f.h.abort \/ ~f.ret THEN Res(f.h, FALSE)
        ELSE IF f.partnum = 0 THEN Abort(f.h)
        ELSE fields(f, [f.h EXCEPT !.def[f.kit][f.partnum] = FALSE], f.h.slot[f.kit][f.partnum])
  IN resolved(findPart(FindArgs(h, kit0, FALSE), partname, TRUE, TRUE))

RECURSIVE setBlocks(_, _, _, _)

\* a loop of set(namevaluepairliststring) that takes a block without its
\* opening brace as if it had one
setBlocksUnbraced(h, kit0, str, currptr) ==
  LET partnamelen == find_partname_length(str, currptr)
      start == skip_spaces(str, currptr + partnamelen)
      next(r) ==
        IF r.h.abort \/ ~r.ret THEN Res(r.h, FALSE)
        ELSE setBlocks(r.h, kit0, str,
                       skip_spaces(str, IF r.pos <= Len(str) /\ str[r.pos] = "}"
                                        THEN r.pos + 1 ELSE r.pos))
      read(h2, node) ==
        IF node = NULL THEN Abort(h2)
        ELSE next(readFields(h2, node, str, start + 1))
      added(c) == read(c.h, c.ret)
      \* h1 is the heap with the default flag of the part cleared
      fields(f, h1, node) ==
        IF ~f.islist THEN read(h1, node)
        ELSE IF node = NULL \/ h1.typ[node] # "SoNodeKitListPart" THEN Abort(h1)
        ELSE IF f.listidx < 0 \/ f.listidx > getNumChildren(h1, node) THEN Res(h1, FALSE)
        ELSE IF f.listidx = getNumChildren(h1, node)
             THEN IF ~canCreateDefaultChild(h1, node) THEN Res(h1, FALSE)
                  ELSE added(createAndAddDefaultChild(h1, node))
        ELSE read(h1, getChild(h1, node, f.listidx))
      resolved(f) ==
        IF f.h.abort \/ ~f.ret THEN Res(f.h, FALSE)
        ELSE IF f.partnum = 0 THEN Abort(f.h)
        ELSE fields(f, [f.h EXCEPT !.def[f.kit][f.partnum] = FALSE], f.h.slot[f.kit][f.partnum])
  IN
  IF h.abort THEN Res(h, FALSE)
  ELSE IF currptr > Len(str) THEN Res(h, TRUE)
  ELSE IF start > Len(str) THEN Res(h, FALSE)
  ELSE resolved(findPart(FindArgs(h, kit0, FALSE), partnameAt(str, currptr, partnamelen), TRUE, TRUE))

\* the loop of set(namevaluepairliststring), with currptr at the next block
setBlocks(h, kit0, str, currptr) ==
  LET partnamelen == find_partname_length(str, currptr)
      start == skip_spaces(str, currptr + partnamelen)
      next(r) ==
        IF r.h.abort \/ ~r.ret THEN Res(r.h, FALSE)
        ELSE setBlocks(r.h, kit0, str,
                       skip_spaces(str, IF r.pos <= Len(str) /\ str[r.pos] = "}"
                                        THEN r.pos + 1 ELSE r.pos))
      read(h2, node) ==
        IF node = NULL THEN Abort(h2)
        ELSE next(readFields(h2, node, str, start + 1))
      added(c) == read(c.h, c.ret)
      \* h1 is the heap with the default flag of the part cleared
      fields(f, h1, node) ==
        IF ~f.islist THEN read(h1, node)
        ELSE IF node = NULL \/ h1.typ[node] # "SoNodeKitListPart" THEN Abort(h1)
        ELSE IF f.listidx < 0 \/ f.listidx > getNumChildren(h1, node) THEN Res(h1, FALSE)
        ELSE IF f.listidx = getNumChildren(h1, node)
             THEN IF ~canCreateDefaultChild(h1, node) THEN Res(h1, FALSE)
                  ELSE added(createAndAddDefaultChild(h1, node))
        ELSE read(h1, getChild(h1, node, f.listidx))
      resolved(f) ==
        IF f.h.abort \/ ~f.ret THEN Res(f.h, FALSE)
        ELSE IF f.partnum = 0 THEN Abort(f.h)
        ELSE fields(f, [f.h EXCEPT !.def[f.kit][f.partnum] = FALSE], f.h.slot[f.kit][f.partnum])
  IN
  IF h.abort THEN Res(h, FALSE)
  ELSE IF currptr > Len(str) THEN Res(h, TRUE)
  ELSE IF start > Len(str) \/ str[start] # "{" THEN Res(h, FALSE)
  ELSE resolved(findPart(FindArgs(h, kit0, FALSE), partnameAt(str, currptr, partnamelen), TRUE, TRUE))

\* kit->set(namevaluepairliststring)
setString(h, kit0, namevaluepairliststring) ==
  setBlocks(h, kit0, namevaluepairliststring, skip_spaces(namevaluepairliststring, 1))

\* kit->createPathToAnyPart(partname, makeifneeded, leafcheck, publiccheck, NULL):
\* ret is the path, <<>> for NULL
createPathToAnyPart(h, kit0, partname, makeifneeded, leafcheck, publiccheck) ==
  LET added(c, node, path) == Res(c.h, path \o <<getContainerNode(node), c.ret>>)
      element(f, node, path, numlistchildren) ==
        IF f.listidx < 0 \/ f.listidx > numlistchildren \/ (~makeifneeded /\ f.listidx = numlistchildren)
        THEN Res(f.h, <<>>)
        ELSE IF f.listidx = numlistchildren
        THEN IF ~canCreateDefaultChild(f.h, node) THEN Res(f.h, path)
             ELSE added(createAndAddDefaultChild(f.h, node), node, path)
        ELSE Res(f.h, path \o <<getContainerNode(node), getChild(f.h, node, f.listidx)>>)
      part(f, node, path) ==
        IF node = NULL THEN Res(f.h, <<>>)
        ELSE IF ~f.islist THEN Res(f.h, path)
        ELSE IF f.h.typ[node] # "SoNodeKitListPart" THEN Abort(f.h)
        ELSE element(f, node, path, getNumChildren(f.h, node))
      checked(f, cat) ==
        IF f.h.abort \/ ~f.ret THEN Res(f.h, <<>>)
        ELSE IF (leafcheck /\ ~isLeaf(cat, f.partnum)) \/ (publiccheck /\ ~isPublic(cat, f.partnum))
             THEN Res(f.h, <<>>)
        ELSE IF f.partnum = 0 THEN Abort(f.h)
        ELSE part(f, f.h.slot[f.kit][f.partnum], f.path \o <<f.h.slot[f.kit][f.partnum]>>)
      resolved(f) == checked(f, getNodekitCatalog(f.h, f.h.typ[f.kit]))
  IN resolved(findPart(FindArgs(h, kit0, TRUE), partname, makeifneeded, FALSE))

\* kit->createPathToPart(partname, makeifneeded, NULL)
createPathToPart(h, kit0, partname, makeifneeded) ==
  createPathToAnyPart(h, kit0, partname, makeifneeded, TRUE, TRUE)

-----------------------------------------------------------------------------
(* Copying.  c is the copy in progress: the heap h, the copy dictionary    *)
(* dict (original -> its copy) and the set done of the originals whose     *)
(* contents have been copied.                                              *)

RECURSIVE addToCopyDict(_, _), addAllToCopyDict(_, _)

\* nodes[1]->addToCopyDict(), nodes[2]->addToCopyDict(), ...; NULL is skipped
addAllToCopyDict(c, nodes) ==
  IF nodes = <<>> THEN c
  ELSE IF Head(nodes) = NULL THEN addAllToCopyDict(c, Tail(nodes))
  ELSE addAllToCopyDict(addToCopyDict(c, Head(nodes)), Tail(nodes))

\* node->addToCopyDict(): a kit makes an instance of its own type and recurses
\* on its non-null parts; any other node on its children
addToCopyDict(c, node) ==
  LET descend(c1) ==
        IF isKit(c.h, node)
        THEN addAllToCopyDict(c1, c.h.slot[node])
        ELSE addAllToCopyDict(c1, c.h.ch[node])
      added(cp) == descend([c EXCEPT !.h = cp.h, !.dict = (node :> cp.ret) @@ @])
  IN
  IF c.h.abort \/ node \in DOMAIN c.dict THEN c
  ELSE added(createInstance(c.h, c.h.typ[node]))

\* SoFieldContainer::checkCopy(orig); a node without a copy stands for itself
checkCopy(c, orig) == IF orig \in DOMAIN c.dict THEN c.dict[orig] ELSE orig

\* kit->pimpl->copyParts(srckit, partlist): first the parts below the kit
\* itself (each copies the contents of its original), then the parts below
\* a part (each is the child of the copied parent at the original's index)
RECURSIVE copyPartsA(_, _, _, _, _), copyPartsB(_, _, _, _, _), copyContents(_, _, _),
          findCopy(_, _), findAllCopies(_, _), setPartsFrom(_, _, _, _, _)

\* a loop that leaves the children of the node of a part that is no leaf
RECURSIVE setPartsFromKeepsChildren(_, _, _, _, _)
setPartsFromKeepsChildren(h, kit, partlist, leafparts, i) ==
  IF h.abort \/ i > Len(partlist) THEN h
  ELSE IF partlist[i] = NULL THEN setPartsFromKeepsChildren(h, kit, partlist, leafparts, i + 1)
  ELSE IF getNodekitCatalog(h, h.typ[kit])[i].leaf = leafparts
  THEN setPartsFromKeepsChildren(setPart(ref(h, partlist[i]), kit, i, partlist[i]).h,
                                 kit, partlist, leafparts, i + 1)
  ELSE setPartsFromKeepsChildren(ref(h, partlist[i]), kit, partlist, leafparts, i + 1)

\* the loop of setParts(partlist, leafparts), from part i on
setPartsFrom(h, kit, partlist, leafparts, i) ==
  IF h.abort \/ i > Len(partlist) THEN h
  ELSE LET node == partlist[i]
           leaftst == getNodekitCatalog(h, h.typ[kit])[i].leaf
           \* node->ref(), in either pass
           held == IF node # NULL THEN ref(h, node) ELSE h
       IN IF node # NULL /\ leaftst = leafparts
          THEN IF ~leaftst
               THEN IF ~hasChildList(h.typ[node]) THEN Abort(held).h
                    ELSE setPartsFrom(setPart([held EXCEPT !.ch[node] = <<>>], kit, i, node).h,
                                      kit, partlist, leafparts, i + 1)
               ELSE setPartsFrom(setPart(held, kit, i, node).h, kit, partlist, leafparts, i + 1)
          ELSE setPartsFrom(held, kit, partlist, leafparts, i + 1)

setParts(h, kit, partlist, leafparts) == setPartsFrom(h, kit, partlist, leafparts, 1)

\* SoFieldContainer::findCopy(orig): the copy of orig, its contents copied
\* from orig once
findCopy(c, orig) ==
  IF c.h.abort \/ orig \notin DOMAIN c.dict \/ orig \in c.done THEN c
  ELSE copyContents([c EXCEPT !.done = @ \cup {orig}], c.dict[orig], orig)

findAllCopies(c, nodes) ==
  IF nodes = <<>> THEN c
  ELSE IF Head(nodes) = NULL THEN findAllCopies(c, Tail(nodes))
  ELSE findAllCopies(findCopy(c, Head(nodes)), Tail(nodes))

copyPartsA(c, kit, srckit, partlist, i) ==
  IF c.h.abort \/ i > NumParts(c.h, kit) THEN [c |-> c, partlist |-> partlist]
  ELSE LET dstnode == c.h.slot[kit][i]
           srcnode == c.h.slot[srckit][i]
           \* ref before inserting into list, unref the old node in list
           replaced(h1) == IF partlist[i] # NULL THEN unref(h1, partlist[i]) ELSE h1
           inserted(c1) == IF c1.h.abort THEN c1 ELSE [c1 EXCEPT !.h = replaced(ref(c1.h, dstnode))]
       IN IF dstnode # NULL /\ getNodekitCatalog(c.h, c.h.typ[kit])[i].parent = 0
          THEN IF dstnode = srcnode THEN [c |-> [c EXCEPT !.h = Abort(c.h).h], partlist |-> partlist]
               ELSE copyPartsA(inserted(copyContents(c, dstnode, srcnode)), kit, srckit,
                               [partlist EXCEPT ![i] = dstnode], i + 1)
          ELSE copyPartsA(c, kit, srckit, partlist, i + 1)

copyPartsB(h, kit, srckit, partlist, i) ==
  IF h.abort \/ i > NumParts(h, kit) THEN [h |-> h, partlist |-> partlist]
  ELSE LET parent == getNodekitCatalog(h, h.typ[kit])[i].parent IN
       IF parent > 0 /\ h.slot[kit][i] # NULL
       THEN LET srcgroup == h.slot[srckit][parent]
                dstgroup == partlist[parent]
            IN IF srcgroup = NULL \/ dstgroup = NULL THEN [h |-> Abort(h).h, partlist |-> partlist]
               ELSE IF ~hasChildList(h.typ[dstgroup]) \/ ~hasChildList(h.typ[srcgroup])
                    THEN [h |-> Abort(h).h, partlist |-> partlist]
               ELSE LET childidx == find(h.ch[srcgroup], h.slot[srckit][i]) IN
                    IF childidx < 0 \/ childidx >= Len(h.ch[dstgroup])
                    THEN [h |-> Abort(h).h, partlist |-> partlist]
                    ELSE LET child == h.ch[dstgroup][childidx + 1]
                             \* ref before inserting, unref old node in list
                             replaced(h1) ==
                               IF partlist[i] # NULL THEN unref(h1, partlist[i]) ELSE h1
                         IN copyPartsB(replaced(ref(h, child)), kit, srckit,
                                       [partlist EXCEPT ![i] = child], i + 1)
       ELSE copyPartsB(h, kit, srckit, partlist, i + 1)

copyParts(c, kit, srckit, partlist) ==
  LET second(a, b) == [c |-> [a.c EXCEPT !.h = b.h], partlist |-> b.partlist]
      first(a) == second(a, copyPartsB(a.c.h, kit, srckit, a.partlist, 1))
  IN first(copyPartsA(c, kit, srckit, partlist, 1))

\* inherited::copyContents(fromfc) of a kit: every part field takes the copy
\* of the original's value and the original's default flag, every other
\* field the original's value
copyFieldValues(c, dst, src) ==
  LET values(c1) ==
        IF c1.h.abort THEN c1
        ELSE [c1 EXCEPT !.h.slot[dst] = [i \in 1..Len(c1.h.slot[src]) |-> checkCopy(c1, c1.h.slot[src][i])],
                        !.h.def[dst] = c1.h.def[src],
                        !.h.fld[dst] = c1.h.fld[src]]
  IN values(findAllCopies(c, c.h.slot[src]))

\* SoGroup::copyContents(from), SoNodeKitListPart::copyContents(from): the
\* fields take the original's values, the children are the copies of the
\* original's children
copyChildren(c, dst, src) ==
  LET values(c1) ==
        IF c1.h.abort THEN c1
        ELSE [c1 EXCEPT !.h.ch[dst] = [i \in 1..Len(c1.h.ch[src]) |-> checkCopy(c1, c1.h.ch[src][i])],
                        !.h.lt[dst] = c1.h.lt[src],
                        !.h.fld[dst] = c1.h.fld[src]]
  IN values(findAllCopies(c, c.h.ch[src]))

\* a copyContents that leaves the default flags as setPart set them
copyContentsAsInstalled(c, dst, src) ==
  LET n == NumParts(c.h, dst)
      released(p, h4) ==
        IF h4.abort THEN [p.c EXCEPT !.h = h4]
        ELSE [p.c EXCEPT !.h = [h4 EXCEPT !.ref = [m \in 1..Len(@) |->
                                                    @[m] - Cardinality({ i \in 1..n : p.partlist[i] = m })]]]
      set(p, h2) ==
        released(p, setParts(setParts(h2, dst, p.partlist, FALSE), dst, p.partlist, TRUE))
      reset(p) ==
        IF p.c.h.abort THEN p.c
        ELSE set(p, [p.c.h EXCEPT !.ch[dst] = <<>>,
                                  !.slot[dst] = [i \in 1..n |-> NULL],
                                  !.def[dst] = [i \in 1..n |-> TRUE]])
      parts(c1) ==
        IF c1.h.abort THEN c1
        ELSE reset(copyParts(c1, dst, src, [i \in 1..n |-> NULL]))
  IN
  IF c.h.abort THEN c
  ELSE IF ~isKit(c.h, dst) THEN copyChildren(c, dst, src)
  ELSE parts(copyFieldValues(c, dst, src))

\* dst->copyContents(src)
copyContents(c, dst, src) ==
  LET n == NumParts(c.h, dst)
      \* restore default flag for fields, unref nodes in temporary list
      restore(p, flaglist, h4) ==
        IF h4.abort THEN [p.c EXCEPT !.h = h4]
        ELSE [p.c EXCEPT !.h = [h4 EXCEPT !.def[dst] = flaglist,
                                          !.ref = [m \in 1..Len(@) |->
                                                    @[m] - Cardinality({ i \in 1..n : p.partlist[i] = m })]]]
      \* set the non-leaf parts first, then the leaf parts
      set(p, flaglist, h2) ==
        restore(p, flaglist, setParts(setParts(h2, dst, p.partlist, FALSE), dst, p.partlist, TRUE))
      \* remove all old children and reset the part fields
      reset(p, flaglist) ==
        IF p.c.h.abort THEN p.c
        ELSE set(p, flaglist, [p.c.h EXCEPT !.ch[dst] = <<>>,
                                            !.slot[dst] = [i \in 1..n |-> NULL],
                                            !.def[dst] = [i \in 1..n |-> TRUE]])
      parts(c1) ==
        IF c1.h.abort THEN c1
        ELSE reset(copyParts(c1, dst, src, [i \in 1..n |-> NULL]), c1.h.def[dst])
  IN
  IF c.h.abort THEN c
  ELSE IF ~isKit(c.h, dst) THEN copyChildren(c, dst, src)
  ELSE parts(copyFieldValues(c, dst, src))

\* node->copy(): the copy dictionary is filled, then the contents are copied
copyNode(h, node) ==
  LET result(c1) == [h |-> c1.h, dict |-> c1.dict, ret |-> checkCopy(c1, node)] IN
  result(findCopy(addToCopyDict([h |-> h, dict |-> << >>, done |-> {}], node), node))

-----------------------------------------------------------------------------
(* Writing.  In stage COUNT_REFS the output counts the write references of *)
(* the nodes and a kit decides which of its fields it writes; in stage     *)
(* WRITE the kit writes them.                                              *)

\* kit->getFieldData(): the names of the fields of a kit of type t in the
\* order of their declaration; "active" is a field that is no part
FieldData(t) ==
  CASE t = "Top" -> <<"topSeparator", "geomSeparator", "shape", "active", "transform", "sub",
                      "colorIndex">>
    [] t = "Sub" -> <<"b">>
    [] t = "Item" -> <<"active", "p">>
    [] t = "Pair" -> <<"topSeparator", "shape", "active">>
    [] t = "PairNull" -> <<"topSeparator", "shape", "active">>
    [] t = "Twin" -> <<"left", "right">>
    [] t = "Outer" -> <<"inner">>
    [] t = "Loop" -> <<"sub">>
    [] OTHER -> <<>>

\* a createWriteData that copies the fields, but for the private parts, in
\* the order of their declaration
createWriteDataUnsorted(h, kit) ==
  LET catalog == getNodekitCatalog(h, h.typ[kit])
      added(name) == getPartNumber(catalog, name) < 0 \/ isPublic(catalog, getPartNumber(catalog, name))
  IN [h EXCEPT !.wd[kit] = <<SelectSeq(FieldData(h.typ[kit]), added)>>]

\* a createWriteData that takes the private parts too
createWriteDataWithPrivate(h, kit) ==
  LET catalog == getNodekitCatalog(h, h.typ[kit])
      added(pass, name) ==
        LET part == getPartNumber(catalog, name) IN
        \/ pass = 0 /\ part < 0
        \/ pass = 1 /\ part > 0 /\ isLeaf(catalog, part)
        \/ pass = 2 /\ part > 0 /\ ~isLeaf(catalog, part)
      fieldsOf(pass) == SelectSeq(FieldData(h.typ[kit]), LAMBDA name : added(pass, name))
  IN [h EXCEPT !.wd[kit] = <<fieldsOf(0) \o fieldsOf(1) \o fieldsOf(2)>>]

\* kit->pimpl->createWriteData(): the fields that are no parts, then the
\* public leaf parts, then the public non-leaf parts
createWriteData(h, kit) ==
  LET catalog == getNodekitCatalog(h, h.typ[kit])
      fielddata == FieldData(h.typ[kit])
      added(pass, name) ==
        LET part == getPartNumber(catalog, name) IN
        IF part > 0 /\ ~isPublic(catalog, part) THEN FALSE
        ELSE \/ pass = 0 /\ part < 0
             \/ pass = 1 /\ part > 0 /\ isLeaf(catalog, part)
             \/ pass = 2 /\ part > 0 /\ ~isLeaf(catalog, part)
      fieldsOf(pass) == SelectSeq(fielddata, LAMBDA name : added(pass, name))
  IN [h EXCEPT !.wd[kit] = <<fieldsOf(0) \o fieldsOf(1) \o fieldsOf(2)>>]

\* SoBase::addWriteReference(out), hasMultipleWriteRefs(), shouldWrite()
SoBase_addWriteReference(h, n) == [h EXCEPT !.wref[n] = @ + 1]

hasMultipleWriteRefs(h, n) == h.wref[n] > 1

shouldWrite(h, n) == h.wref[n] > 0

\* is_default_node(node, typecheck)
is_default_node(h, node, typecheck) ==
  /\ h.typ[node] = typecheck
  /\ ~(hasChildList(h.typ[node]) /\ Len(h.ch[node]) > 0)
  /\ h.fld[node] = 0

\* kit->setDefaultOnNonWritingFields()
\* a pass that does not count the children of the node of a leaf part
setDefaultOnNonWritingFieldsOfGroups(h, kit) ==
  LET catalog == getNodekitCatalog(h, h.typ[kit])
      nonwriting(i, node) ==
        IF node = NULL THEN catalog[i].nullbydefault
        ELSE IF isLeaf(catalog, i)
        THEN h.typ[node] \in {"SoGroup", "SoSeparator", "SoNodeKitListPart"}
        ELSE isDerivedFrom(h.typ[node], "SoGroup") /\ is_default_node(h, node, h.typ[node])
  IN [h EXCEPT !.def[kit] = [i \in 1..Len(@) |-> @[i] \/ nonwriting(i, h.slot[kit][i])]]

\* a pass that leaves the flags of the empty fields as they are
setDefaultOnNonWritingFieldsOfNodes(h, kit) ==
  LET catalog == getNodekitCatalog(h, h.typ[kit])
      nonwriting(i, node) ==
        IF node = NULL THEN FALSE
        ELSE IF isLeaf(catalog, i)
        THEN \/ h.typ[node] \in {"SoGroup", "SoSeparator"} /\ Len(h.ch[node]) = 0
             \/ h.typ[node] = "SoNodeKitListPart" /\ getNumChildren(h, node) = 0
                  /\ getContainerNode(node) # NULL
        ELSE isDerivedFrom(h.typ[node], "SoGroup") /\ is_default_node(h, node, h.typ[node])
  IN [h EXCEPT !.def[kit] = [i \in 1..Len(@) |-> @[i] \/ nonwriting(i, h.slot[kit][i])]]

setDefaultOnNonWritingFields(h, kit) ==
  LET catalog == getNodekitCatalog(h, h.typ[kit])
      nonwriting(i, node) ==
        IF node = NULL THEN catalog[i].nullbydefault
        ELSE IF isLeaf(catalog, i)
        THEN \/ h.typ[node] \in {"SoGroup", "SoSeparator"} /\ Len(h.ch[node]) = 0
             \* the container of a list part is the plain group it is made with
             \/ h.typ[node] = "SoNodeKitListPart" /\ getNumChildren(h, node) = 0
                  /\ getContainerNode(node) # NULL
        ELSE isDerivedFrom(h.typ[node], "SoGroup") /\ is_default_node(h, node, h.typ[node])
  IN [h EXCEPT !.def[kit] = [i \in 1..Len(@) |-> @[i] \/ nonwriting(i, h.slot[kit][i])]]

\* kit->pimpl->testParentWrite(), from part i on.  The look-up
\* writedata->getIndex(node, instancelist[parent]) takes the node of the
\* part for the container of the parent's field, which it is not: what it
\* finds depends on where the objects lie.  hits is the set of the parts
\* for which it finds a field.
RECURSIVE testParentWrite(_, _, _, _)
testParentWrite(h, kit, hits, i) ==
  IF h.abort \/ i > NumParts(h, kit) THEN h
  ELSE LET node == h.slot[kit][i]
           parent == getNodekitCatalog(h, h.typ[kit])[i].parent
       IN IF h.def[kit][i] /\ node # NULL /\ parent > 0
          THEN IF h.wd[kit] = <<>> THEN Abort(h).h
               ELSE IF h.slot[kit][parent] # NULL /\ ~h.def[kit][parent] /\ i \in hits
                    THEN testParentWrite([h EXCEPT !.def[kit][i] = FALSE], kit, hits, i + 1)
               ELSE testParentWrite(h, kit, hits, i + 1)
          ELSE testParentWrite(h, kit, hits, i + 1)

RECURSIVE addWriteReference(_, _, _, _), countMyFields(_, _, _), countFields(_, _, _, _),
          countWriteRefs(_, _, _), countAllWriteRefs(_, _, _)

\* an addWriteReference that counts the fields of the kit anew at every
\* reference
addWriteReferenceRecount(h, kit, isfromfield, hits) ==
  countMyFields([SoBase_addWriteReference(h, kit) EXCEPT !.wd[kit] = <<>>], kit, hits)

\* kit->addWriteReference(out, isfromfield)
addWriteReference(h, kit, isfromfield, hits) ==
  LET counted(h1) ==
        IF ~isfromfield /\ ~hasMultipleWriteRefs(h1, kit) THEN countMyFields(h1, kit, hits)
        ELSE h1
  IN counted(SoBase_addWriteReference(h, kit))

\* SoSFNode::countWriteRefs(out) of a field that holds node: the node is
\* referenced; at its first reference a kit counts its fields, any other
\* node references its children
countWriteRefs(h, node, hits) ==
  LET first(h1) ==
        IF hasMultipleWriteRefs(h1, node) THEN h1 ELSE countAllWriteRefs(h1, h1.ch[node], hits)
  IN
  IF h.abort THEN h
  ELSE IF isKit(h, node) THEN addWriteReference(h, node, FALSE, hits)
  ELSE first(SoBase_addWriteReference(h, node))

countAllWriteRefs(h, nodes, hits) ==
  IF nodes = <<>> THEN h
  ELSE countAllWriteRefs(countWriteRefs(h, Head(nodes), hits), Tail(nodes), hits)

\* the loop of countMyFields over the fields of writedata, from field i on
countFields(h, kit, hits, i) ==
  IF h.abort \/ i > Len(h.wd[kit][1]) THEN h
  ELSE LET partnum == getPartNumber(getNodekitCatalog(h, h.typ[kit]), h.wd[kit][1][i]) IN
       IF partnum < 0 THEN countFields(h, kit, hits, i + 1)
       ELSE IF ~h.def[kit][partnum]
       THEN IF h.slot[kit][partnum] = NULL THEN countFields(h, kit, hits, i + 1)
            ELSE countFields(countWriteRefs(h, h.slot[kit][partnum], hits), kit, hits, i + 1)
       ELSE IF isKit(h, h.slot[kit][partnum])
            THEN countFields(countMyFields(h, h.slot[kit][partnum], hits), kit, hits, i + 1)
       ELSE countFields(h, kit, hits, i + 1)

\* kit->countMyFields(out)
countMyFields(h, kit, hits) ==
  LET catalog == getNodekitCatalog(h, h.typ[kit])
      \* test if some fields that are default should write anyway
      missing(h1) ==
        [h1 EXCEPT !.def[kit] = [i \in 1..Len(@) |->
                                   @[i] /\ ~(h1.slot[kit][i] = NULL /\ ~catalog[i].nullbydefault)]]
  IN
  IF h.abort \/ h.wd[kit] # <<>> THEN h
  ELSE countFields(testParentWrite(setDefaultOnNonWritingFields(missing(createWriteData(h, kit)),
                                                                kit),
                                   kit, hits, 1),
                   kit, hits, 1)

RECURSIVE forceChildDrivenWriteRefs(_, _), forceFrom(_, _, _)

\* a check that keeps the field table of a kit that has no reason to write
forceChildDrivenWriteRefsKeepsData(h, kit) ==
  LET found(r) ==
        IF r.ret THEN Res(SoBase_addWriteReference(r.h, kit), TRUE) ELSE Res(r.h, FALSE)
  IN
  IF shouldWrite(h, kit) THEN Res(h, TRUE)
  ELSE IF h.wd[kit] = <<>> THEN Res(h, FALSE)
  ELSE found(forceFrom(h, kit, 1))

\* the loop of forceChildDrivenWriteRefs over the fields of writedata, from
\* field i on: ret is TRUE when a reason to write is found
forceFrom(h, kit, i) ==
  LET nested(r) == IF r.ret THEN r ELSE forceFrom(r.h, kit, i + 1)
      part(partnum, node) ==
        IF partnum < 0 THEN h.fld[kit] # 0
        ELSE ~h.def[kit][partnum] \/ (node # NULL /\ shouldWrite(h, node))
  IN
  IF i > Len(h.wd[kit][1]) THEN Res(h, FALSE)
  ELSE LET partnum == getPartNumber(getNodekitCatalog(h, h.typ[kit]), h.wd[kit][1][i]) IN
       IF part(partnum, IF partnum > 0 THEN h.slot[kit][partnum] ELSE NULL) THEN Res(h, TRUE)
       ELSE IF partnum > 0 /\ isKit(h, h.slot[kit][partnum])
            THEN nested(forceChildDrivenWriteRefs(h, h.slot[kit][partnum]))
       ELSE forceFrom(h, kit, i + 1)

\* kit->forceChildDrivenWriteRefs(out)
forceChildDrivenWriteRefs(h, kit) ==
  LET found(r) ==
        IF r.ret THEN Res(SoBase_addWriteReference(r.h, kit), TRUE)
        ELSE Res([r.h EXCEPT !.wd[kit] = <<>>], FALSE)
  IN
  IF shouldWrite(h, kit) THEN Res(h, TRUE)
  ELSE IF h.wd[kit] = <<>> THEN Res(h, FALSE)
  ELSE found(forceFrom(h, kit, 1))

\* a loop of write() that leaves the default fields as they are
writingPartsUnforced(h, kit, i) == h

\* the loop of write() over the parts in stage WRITE, from part i on: a
\* default field whose node is going to be written is written too
RECURSIVE writingParts(_, _, _)
writingParts(h, kit, i) ==
  LET forced(r) ==
        writingParts(IF r.ret THEN [r.h EXCEPT !.def[kit][i] = FALSE] ELSE r.h, kit, i + 1)
  IN
  IF i > NumParts(h, kit) THEN h
  ELSE IF h.def[kit][i] /\ h.slot[kit][i] # NULL
  THEN IF shouldWrite(h, h.slot[kit][i])
       THEN writingParts([h EXCEPT !.def[kit][i] = FALSE], kit, i + 1)
       ELSE IF isKit(h, h.slot[kit][i]) THEN forced(forceChildDrivenWriteRefs(h, h.slot[kit][i]))
       ELSE writingParts(h, kit, i + 1)
  ELSE writingParts(h, kit, i + 1)

\* Stage WRITE.  w is the output: the heap h, the fields written so far
\* (emitted) and the nodes written so far (written).
RECURSIVE write(_, _), writeFields(_, _, _), writeNode(_, _), writeNodes(_, _)

\* writedata->write(out, kit), from field i on: the fields that are not
\* default are written in the order of writedata, a part with its node
writeFields(w, kit, i) ==
  LET name == w.h.wd[kit][1][i]
      partnum == getPartNumber(getNodekitCatalog(w.h, w.h.typ[kit]), name)
      fieldShouldWrite == IF partnum < 0 THEN w.h.fld[kit] # 0 ELSE ~w.h.def[kit][partnum]
      value(w1) ==
        IF partnum > 0 /\ w1.h.slot[kit][partnum] # NULL
        THEN writeNode(w1, w1.h.slot[kit][partnum])
        ELSE w1
  IN
  IF i > Len(w.h.wd[kit][1]) THEN w
  ELSE IF fieldShouldWrite
  THEN writeFields(value([w EXCEPT !.emitted = Append(@, [kit |-> kit, field |-> name])]),
                   kit, i + 1)
  ELSE writeFields(w, kit, i + 1)

\* kit->write(action) in stage WRITE
write(w, kit) ==
  LET done(w1) == [w1 EXCEPT !.h.wd[kit] = <<>>] IN
  IF kit \in w.written THEN w
  ELSE IF w.h.wd[kit] = <<>> THEN [w EXCEPT !.written = @ \cup {kit}]
  ELSE done(writeFields([w EXCEPT !.written = @ \cup {kit},
                                  !.h = writingParts(w.h, kit, 1)], kit, 1))

\* node->write(action) in stage WRITE: a kit writes its fields, any other
\* node its children
writeNode(w, node) ==
  IF isKit(w.h, node) THEN write(w, node)
  ELSE IF node \in w.written THEN w
  ELSE writeNodes([w EXCEPT !.written = @ \cup {node}], w.h.ch[node])

writeNodes(w, nodes) ==
  IF nodes = <<>> THEN w ELSE writeNodes(writeNode(w, Head(nodes)), Tail(nodes))

\* SoWriteAction::apply(kit): stage COUNT_REFS, then stage WRITE; the
\* references counted for the output end with it
writeAction(h, kit, hits) ==
  LET ended(w) == [w EXCEPT !.h.wref = [n \in 1..Len(@) |-> 0]] IN
  ended(write([h |-> addWriteReference(h, kit, FALSE, hits), emitted |-> <<>>, written |-> {}],
              kit))

-----------------------------------------------------------------------------
(* Traversal.  act is what action->getPathCode(numindices, indices) gives: *)
(* whether the kit is in the path of the action and, if it is, the indexes  *)
(* of its children that are.  The result is the sequence of the children    *)
(* the action is forwarded to.                                              *)

\* children->traverseInPath(action, numindices, indices)
traverseInPath(list, indices) == [k \in 1..Len(indices) |-> list[indices[k] + 1]]

\* a doAction that forwards the action to every child
doActionToAll(h, kit, act) == h.ch[kit]

\* kit->doAction(action)
doAction(h, kit, act) ==
  IF act.inpath THEN traverseInPath(h.ch[kit], act.indices) ELSE h.ch[kit]

\* kit->getMatrix(action)
getMatrix(h, kit, act) ==
  IF act.inpath THEN traverseInPath(h.ch[kit], act.indices) ELSE <<>>

\* kit->search(action): found is action->isFound() after inherited::search
search(h, kit, act, found, searching) ==
  IF found \/ ~searching THEN <<>> ELSE doAction(h, kit, act)

\* a getBoundingBox that divides by the number of the children traversed
getBoundingBoxOverAll(h, kit, act, reports) ==
  LET last == IF act.inpath THEN act.indices[Len(act.indices)] ELSE Len(h.ch[kit]) - 1
      reporting == { i \in 0..last : reports[i + 1] # 0 }
      RECURSIVE accumulated(_)
      accumulated(i) == IF i < 0 THEN 0 ELSE accumulated(i - 1) + reports[i + 1]
  IN [visited |-> [i \in 1..(last + 1) |-> h.ch[kit][i]],
      centerset |-> reporting # {},
      center |-> IF reporting # {} THEN <<accumulated(last), last + 1>> ELSE <<0, 1>>]

\* kit->getBoundingBox(action): reports[i + 1] is the center that child i
\* sets when the action is forwarded to it, 0 when it sets none; no center
\* is set when the action comes to the kit.  The center the kit sets is
\* acccenter / float(numacc), kept as the pair of the two.
getBoundingBox(h, kit, act, reports) ==
  LET last == IF act.inpath THEN act.indices[Len(act.indices)] ELSE Len(h.ch[kit]) - 1
      RECURSIVE loop(_, _)
      loop(i, st) ==
        IF i > last THEN st
        ELSE loop(i + 1,
                  IF reports[i + 1] # 0
                  THEN [visited |-> Append(st.visited, h.ch[kit][i + 1]),
                        acccenter |-> st.acccenter + reports[i + 1],
                        numacc |-> st.numacc + 1]
                  ELSE [st EXCEPT !.visited = Append(@, h.ch[kit][i + 1])])
      result(st) ==
        [visited |-> st.visited,
         centerset |-> st.numacc # 0,
         center |-> IF st.numacc # 0 THEN <<st.acccenter, st.numacc>> ELSE <<0, 1>>]
  IN result(loop(0, [visited |-> <<>>, acccenter |-> 0, numacc |-> 0]))

-----------------------------------------------------------------------------
(* Reference counting: a node that is no longer referenced is destroyed    *)

\* the nodes below node n: its part fields' values, then its children
below(h, n) == SelectSeq(h.slot[n] \o h.ch[n], LAMBDA m : m # NULL)

\* the nodes reached from the nodes of todo, in depth-first order
RECURSIVE visit(_, _, _)
visit(h, todo, seen) ==
  IF todo = <<>> THEN seen
  ELSE IF \E i \in 1..Len(seen) : seen[i] = Head(todo) THEN visit(h, Tail(todo), seen)
  ELSE visit(h, below(h, Head(todo)) \o Tail(todo), Append(seen, Head(todo)))

\* the heap once every node that root does not reach is destroyed; the
\* nodes that remain are numbered in the order of visit, the identity of a
\* node being of no consequence to the operations
release(h, root) ==
  LET ren(list, new) == [i \in 1..Len(list) |-> IF list[i] = NULL THEN NULL ELSE new[list[i]]]
      renumbered(live, new) ==
        [typ |-> [i \in 1..Len(live) |-> h.typ[live[i]]],
         ch |-> [i \in 1..Len(live) |-> ren(h.ch[live[i]], new)],
         slot |-> [i \in 1..Len(live) |-> ren(h.slot[live[i]], new)],
         def |-> [i \in 1..Len(live) |-> h.def[live[i]]],
         lt |-> [i \in 1..Len(live) |-> h.lt[live[i]]],
         fld |-> [i \in 1..Len(live) |-> h.fld[live[i]]],
         wd |-> [i \in 1..Len(live) |-> h.wd[live[i]]],
         wref |-> [i \in 1..Len(live) |-> h.wref[live[i]]],
         ref |-> [i \in 1..Len(live) |-> h.ref[live[i]]],
         abort |-> h.abort,
         overflow |-> h.overflow,
         cat |-> h.cat]
      visited(live) ==
        renumbered(live, [n \in { live[i] : i \in 1..Len(live) } |->
                            CHOOSE i \in 1..Len(live) : live[i] = n])
  IN visited(visit(h, <<root>>, <<>>))

-----------------------------------------------------------------------------
(* State                                                                   *)

VARIABLES
  types,        \* the runtime type of every node
  children,     \* the child list of every node
  instancelist, \* the part fields' values of every kit
  isdefault,    \* the part fields' default flags of every kit
  childtypes,   \* the locked child types of every list part
  fields,       \* the value of the own fields of every node
  writedata,    \* the writedata of every kit
  writerefs,    \* the write references of every node
  aborted,      \* an assert has failed
  pre,          \* the heap when the last operation was called
  call,         \* the last operation, its arguments and its results
  cpy,          \* the result of the last copy: heap, dictionary and copy
  searchchildren \* SoBaseKit::searchchildren, the toggle of the class

vars == <<types, children, instancelist, isdefault, childtypes, fields, writedata, writerefs, aborted,
          pre, call, cpy, searchchildren>>

\* the kit under test
TheKit == 1

Heap == [typ |-> types, ch |-> children, slot |-> instancelist, def |-> isdefault,
         lt |-> childtypes, fld |-> fields, wd |-> writedata, wref |-> writerefs, abort |-> aborted,
         ref |-> [n \in 1..Len(types) |-> 0], overflow |-> FALSE, cat |-> classcatalog]

Install(h) ==
  /\ types' = h.typ
  /\ children' = h.ch
  /\ instancelist' = h.slot
  /\ isdefault' = h.def
  /\ childtypes' = h.lt
  /\ fields' = h.fld
  /\ writedata' = h.wd
  /\ writerefs' = h.wref
  /\ aborted' = h.abort
  /\ searchchildren' = searchchildren

NoCall ==
  [op |-> "none", kit |-> NULL, partnum |-> 0, node |-> NULL, name |-> <<>>,
   make |-> FALSE, rec |-> FALSE, usepath |-> FALSE, readok |-> FALSE,
   ret |-> FALSE, rnode |-> NULL, rkit |-> NULL, rpartnum |-> -1, rislist |-> FALSE,
   rlistidx |-> -1, rpath |-> <<>>, blocks |-> <<>>, emitted |-> <<>>,
   inpath |-> FALSE, indices |-> <<>>, found |-> FALSE, reports |-> <<>>,
   visited |-> <<>>, centerset |-> FALSE, center |-> <<0, 1>>, overflow |-> FALSE]

NoCopy == [h |-> EmptyHeap, dict |-> << >>, ret |-> NULL]

\* no list grows beyond the bound, and no more nodes than the bound hold
\* values read into their fields
ListsOK(h) ==
  /\ \A n \in 1..Len(h.typ) : h.typ[n] = "SoNodeKitListPart" => Len(h.ch[n]) <= MaxList
  /\ Cardinality({ n \in 1..Len(h.typ) : h.fld[n] # 0 }) <= MaxValues

\* the kits of the heap
Kits(h) == { n \in 1..Len(h.typ) : h.typ[n] \in KitTypes }

\* a new node of type t as a caller makes it, with the heap that holds it
NewInput(h, t) == [h |-> createInstance(h, t).h, node |-> Len(h.typ) + 1]

\* the nodes a caller passes to setPart(partnum, node): none, a new node,
\* the node the part holds or a child of the node of its parent part
PartInputs(h, partnum) ==
  LET parentIdx == getNodekitCatalog(h, h.typ[TheKit])[partnum].parent
      parent == IF parentIdx = 0 THEN TheKit ELSE h.slot[TheKit][parentIdx]
      kids == IF parent = NULL THEN <<>> ELSE h.ch[parent]
  IN { [h |-> h, node |-> NULL] } \cup { NewInput(h, t) : t \in {"SoCube", "SoSeparator", "Sub"} }
     \cup { [h |-> h, node |-> n] : n \in {h.slot[TheKit][partnum]} \cup {kids[i] : i \in 1..Len(kids)} }

\* the nodes a caller passes to setPart(name, node): none or a new node
NameInputs(h) ==
  { [h |-> h, node |-> NULL] } \cup { NewInput(h, t) : t \in {"SoCube", "SoSeparator", "Item"} }

\* the decimal digit of a list index
IndexName(k) == IF k < 0 THEN <<"-", Digits[1 - k]>> ELSE <<Digits[k + 1]>>

\* the list indexes a caller names: below, at and above the length of a list
ListIndexes == (-1)..MaxList

\* the part names a caller passes, two of them with a list index that is
\* no number or has no closing bracket
Names ==
  { <<"this">>, <<"topSeparator">>, <<"geomSeparator">>, <<"shape">>, <<"sub">>, <<"nosuch">>,
    <<"sub", ".", "b">>, <<"b">>,
    <<"sub", ".", "b", "[", "x", "]">>, <<"sub", ".", "b", "[", "0">> }
  \cup { <<"sub", ".", "b", "[">> \o IndexName(k) \o <<"]">> : k \in ListIndexes }
  \cup { <<"sub", ".", "b", "[">> \o IndexName(k) \o <<"]", ".", "p">> : k \in ListIndexes }
  \cup { <<"b", "[">> \o IndexName(k) \o <<"]">> : k \in ListIndexes }

\* the names of the parts a caller sets
SetNames ==
  { <<"topSeparator">>, <<"geomSeparator">>, <<"shape">>, <<"sub">>, <<"sub", ".", "b">> }
  \cup { <<"sub", ".", "b", "[">> \o IndexName(k) \o <<"]">> : k \in ListIndexes }

\* the names of the parts whose fields a caller sets
FieldNames ==
  { <<"shape">>, <<"nosuch">> }
  \cup { <<"sub", ".", "b", "[">> \o IndexName(k) \o <<"]">> : k \in ListIndexes }

\* the field texts a caller passes: one that reads and one that does not
Parameters == { <<"v">>, <<"x">> }

\* A block of the texts a caller passes to set(string): the part it names
\* (for part b of kit sub with a list index), its field text and whether it
\* has its opening brace, with white space here and there
Block(part, idx, body, brace) == [part |-> part, idx |-> idx, body |-> body, brace |-> brace]

\* blocks that read, one of them of a part that is no leaf; a block with
\* text that is no field after a field; a block without its opening brace;
\* a block of a part that does not exist; the blocks of the list elements
Blocks ==
  { Block("shape", 0, <<" ", "v", " ">>, TRUE),
    Block("geomSeparator", 0, <<"v">>, TRUE),
    Block("shape", 0, <<"v", " ", "x">>, TRUE),
    Block("shape", 0, <<"v">>, FALSE),
    Block("nosuch", 0, <<"v">>, TRUE) }
  \cup { Block("b", k, <<"v">>, TRUE) : k \in ListIndexes }

\* the text of a block
BlockText(b) ==
  (IF b.part = "b" THEN <<"sub", ".", "b", "[">> \o IndexName(b.idx) \o <<"]">> ELSE <<b.part, " ">>)
  \o (IF b.brace THEN <<"{">> ELSE <<>>) \o b.body \o <<"}", " ">>

\* the sequences of at most n blocks
RECURSIVE BlockSeqs(_)
BlockSeqs(n) ==
  IF n = 0 THEN { <<>> }
  ELSE BlockSeqs(n - 1) \cup { Append(bs, b) : bs \in BlockSeqs(n - 1), b \in Blocks }

\* the text of a sequence of blocks
RECURSIVE Text(_)
Text(bs) == IF bs = <<>> THEN <<>> ELSE BlockText(Head(bs)) \o Text(Tail(bs))

\* the names of the parts a caller asks the path to
PathNames ==
  { <<"this">>, <<"topSeparator">>, <<"geomSeparator">>, <<"shape">> }
  \cup { <<"sub", ".", "b", "[">> \o IndexName(k) \o <<"]">> : k \in ListIndexes }
  \cup { <<"sub", ".", "b", "[">> \o IndexName(k) \o <<"]", ".", "p">> : k \in ListIndexes }

\* the state after the construction of the kit
Init ==
  /\ \E h \in {release(createInstance(EmptyHeap, "Top").h, TheKit)} :
       /\ types = h.typ
       /\ children = h.ch
       /\ instancelist = h.slot
       /\ isdefault = h.def
       /\ childtypes = h.lt
       /\ fields = h.fld
       /\ writedata = h.wd
       /\ writerefs = h.wref
       /\ aborted = h.abort
  /\ pre = EmptyHeap
  /\ call = NoCall
  /\ cpy = NoCopy
  /\ searchchildren = FALSE

-----------------------------------------------------------------------------
(* Operations                                                              *)

\* An operation is called when no assert has failed and no operation is kept
Idle == ~aborted /\ call.op = "none" /\ writerefs[TheKit] = 0

\* An operation is called between two operations of a run, or as the last
\* operation of a run; the last one is kept, with the heap it was called
\* with (h0) and the heap it left (h), for inspection.  Between two
\* operations the caller holds the kit only: the nodes the kit does not
\* reach are destroyed.
Done(h0, h, c) ==
  /\ ListsOK(h)
  /\ cpy' = NoCopy
  /\ \/ /\ Install(h)
        /\ pre' = h0
        /\ call' = [c EXCEPT !.overflow = h.overflow]
     \/ /\ Install(release(h, TheKit))
        /\ pre' = EmptyHeap
        /\ call' = NoCall

\* new SoBaseKit subclass instance: the constructor, called by a caller that
\* holds the kit under test
Construct ==
  /\ Idle
  /\ \E t \in KitTypes :
       \E r \in {createInstance(Heap, t)} :
         Done(Heap, r.h, [NoCall EXCEPT !.op = "construct", !.rnode = r.ret, !.ret = TRUE])

\* kit->setPart(partnum, node)
SetPart ==
  /\ Idle
  /\ \E partnum \in 1..NumParts(Heap, TheKit) : \E in \in PartInputs(Heap, partnum) :
       \E r \in {setPart(in.h, TheKit, partnum, in.node)} :
         Done(in.h, r.h, [NoCall EXCEPT !.op = "setPart", !.kit = TheKit, !.partnum = partnum,
                                        !.node = in.node, !.ret = r.ret])

\* SoBaseKit::findPart(name, kit, partnum, islist, listidx, makeifneeded, path, recsearch)
FindPart ==
  /\ Idle
  /\ \E kit \in Kits(Heap) : \E name \in Names : \E make \in BOOLEAN : \E rec \in BOOLEAN :
       \E f \in {findPart(FindArgs(Heap, kit, FALSE), name, make, rec)} :
         Done(Heap, f.h, [NoCall EXCEPT !.op = "findPart", !.kit = kit, !.name = name,
                                        !.make = make, !.rec = rec, !.usepath = FALSE,
                                        !.ret = f.ret, !.rkit = f.kit, !.rpartnum = f.partnum,
                                        !.rislist = f.islist, !.rlistidx = f.listidx,
                                        !.rpath = f.path])

\* kit->getPart(name, makeifneeded)
GetPart ==
  /\ Idle
  /\ \E name \in Names : \E make \in BOOLEAN :
       \E r \in {getPart(Heap, TheKit, name, make)} :
         Done(Heap, r.h, [NoCall EXCEPT !.op = "getPart", !.kit = TheKit, !.name = name,
                                        !.make = make, !.ret = r.ret # NULL, !.rnode = r.ret])

\* kit->setPart(name, node)
SetPartByName ==
  /\ Idle
  /\ \E name \in SetNames : \E in \in NameInputs(Heap) :
       \E r \in {setPartByName(in.h, TheKit, name, in.node)} :
         Done(in.h, r.h, [NoCall EXCEPT !.op = "setPartByName", !.kit = TheKit, !.name = name,
                                        !.node = in.node, !.ret = r.ret])

\* kit->set(name, parameters)
SetFields ==
  /\ Idle
  /\ \E name \in FieldNames : \E parameters \in Parameters :
       \E r \in {setFields(Heap, TheKit, name, parameters)} :
         Done(Heap, r.h, [NoCall EXCEPT !.op = "set", !.kit = TheKit, !.name = name,
                                        !.readok = (parameters = <<"v">>), !.ret = r.ret])

\* kit->set(string)
SetString ==
  /\ Idle
  /\ \E bs \in BlockSeqs(MaxBlocks) :
       \E r \in {setString(Heap, TheKit, Text(bs))} :
         Done(Heap, r.h, [NoCall EXCEPT !.op = "setString", !.kit = TheKit, !.name = Text(bs),
                                        !.blocks = bs, !.ret = r.ret])

\* kit->createPathToPart(name, makeifneeded)
CreatePathToPart ==
  /\ Idle
  /\ \E name \in PathNames : \E make \in BOOLEAN :
       \E r \in {createPathToPart(Heap, TheKit, name, make)} :
         Done(Heap, r.h, [NoCall EXCEPT !.op = "createPathToPart", !.kit = TheKit, !.name = name,
                                        !.make = make, !.ret = r.ret # <<>>, !.rpath = r.ret])

\* kit->copy(), as the last operation of a run
Copy ==
  /\ Idle
  /\ \E r \in {copyNode(Heap, TheKit)} :
       /\ Install([Heap EXCEPT !.abort = r.h.abort])
       /\ pre' = Heap
       /\ call' = [NoCall EXCEPT !.op = "copy", !.kit = TheKit, !.ret = ~r.h.abort, !.rnode = r.ret]
       /\ cpy' = r

Next ==
  \/ Construct
  \/ SetPart
  \/ FindPart
  \/ GetPart
  \/ SetPartByName
  \/ CreatePathToPart
  \/ Copy

Spec == Init /\ [][Next]_vars

\* the state after the construction of a kit whose part is of its own type
InitLoop ==
  /\ \E h \in {release(createInstance(EmptyHeap, "Loop").h, TheKit)} :
       /\ types = h.typ
       /\ children = h.ch
       /\ instancelist = h.slot
       /\ isdefault = h.def
       /\ childtypes = h.lt
       /\ fields = h.fld
       /\ writedata = h.wd
       /\ writerefs = h.wref
       /\ aborted = h.abort
  /\ pre = EmptyHeap
  /\ call = NoCall
  /\ cpy = NoCopy
  /\ searchchildren = FALSE

\* A kit whose part is of its own type with the operations that resolve,
\* build, set and copy
NextLoop ==
  \/ SetPart
  \/ GetPart
  \/ SetPartByName
  \/ CreatePathToPart
  \/ Copy

SpecLoop == InitLoop /\ [][NextLoop]_vars

\* the parts of the kit for which testParentWrite may look a field up: those
\* that are made below another part
Lookups(h, kit) ==
  { i \in 1..NumParts(h, kit) :
      h.slot[kit][i] # NULL /\ getNodekitCatalog(h, h.typ[kit])[i].parent > 0 }

\* kit->write(action) in stage COUNT_REFS, called by a caller that counts
\* the references of the kit once more or for the first time; hits is what
\* the look-ups of testParentWrite find
CountRefs ==
  /\ ~aborted
  /\ call.op = "none"
  /\ writerefs[TheKit] < MaxPasses
  /\ \E hits \in SUBSET Lookups(Heap, TheKit) :
       \E h \in {addWriteReference(Heap, TheKit, FALSE, hits)} :
         Done(Heap, h, [NoCall EXCEPT !.op = "countRefs", !.kit = TheKit, !.ret = TRUE])

\* SoWriteAction(out).apply(kit)
Write ==
  /\ ~aborted
  /\ call.op = "none"
  /\ writerefs[TheKit] < MaxPasses
  /\ \E hits \in SUBSET Lookups(Heap, TheKit) :
       \E w \in {writeAction(Heap, TheKit, hits)} :
         Done(Heap, w.h, [NoCall EXCEPT !.op = "write", !.kit = TheKit, !.ret = TRUE,
                                       !.emitted = w.emitted])

\* the kit as its constructor leaves it
constructedKit(t) == release(createInstance(EmptyHeap, t).h, TheKit)

\* A kit of one of six types with the operations that change its parts
\* and those that write it
InitWrite ==
  /\ \E h \in {constructedKit(t) : t \in {"Top", "Pair", "PairNull", "Twin", "Sub", "Outer"}} :
       /\ types = h.typ
       /\ children = h.ch
       /\ instancelist = h.slot
       /\ isdefault = h.def
       /\ childtypes = h.lt
       /\ fields = h.fld
       /\ writedata = h.wd
       /\ writerefs = h.wref
       /\ aborted = h.abort
  /\ pre = EmptyHeap
  /\ call = NoCall
  /\ cpy = NoCopy
  /\ searchchildren = FALSE

\* what action->getPathCode() gives for the kit: not in the path, or in the
\* path with the indexes of some of its children, in ascending order
PathCodes(h, kit) ==
  LET n == Len(h.ch[kit])
      ascending(S) == CHOOSE q \in [1..Cardinality(S) -> S] :
                        \A a, b \in 1..Cardinality(S) : a < b => q[a] < q[b]
  IN { [inpath |-> FALSE, indices |-> <<>>] }
     \cup { [inpath |-> TRUE, indices |-> ascending(S)] : S \in (SUBSET (0..(n - 1))) \ {{}} }

\* SoBaseKit::setSearchingChildren(newval)
SetSearchingChildren ==
  /\ Idle
  /\ \E newval \in BOOLEAN : searchchildren' = newval
  /\ UNCHANGED <<types, children, instancelist, isdefault, childtypes, fields, writedata,
                 writerefs, aborted, pre, call, cpy>>

\* kit->doAction(action), as callback, GLRender and handleEvent call it
DoAction ==
  /\ Idle
  /\ \E act \in PathCodes(Heap, TheKit) :
       Done(Heap, Heap, [NoCall EXCEPT !.op = "doAction", !.kit = TheKit, !.inpath = act.inpath,
                                      !.indices = act.indices,
                                      !.visited = doAction(Heap, TheKit, act)])

\* kit->getMatrix(action)
GetMatrix ==
  /\ Idle
  /\ \E act \in PathCodes(Heap, TheKit) :
       Done(Heap, Heap, [NoCall EXCEPT !.op = "getMatrix", !.kit = TheKit, !.inpath = act.inpath,
                                      !.indices = act.indices,
                                      !.visited = getMatrix(Heap, TheKit, act)])

\* kit->search(action)
Search ==
  /\ Idle
  /\ \E act \in PathCodes(Heap, TheKit) : \E found \in BOOLEAN :
       Done(Heap, Heap, [NoCall EXCEPT !.op = "search", !.kit = TheKit, !.inpath = act.inpath,
                                      !.indices = act.indices, !.found = found,
                                      !.visited = search(Heap, TheKit, act, found, searchchildren)])

\* kit->getBoundingBox(action)
GetBoundingBox ==
  /\ Idle
  /\ \E act \in PathCodes(Heap, TheKit) :
       \E reports \in [1..Len(Heap.ch[TheKit]) -> 0..MaxCenter] :
         \E r \in {getBoundingBox(Heap, TheKit, act, reports)} :
           Done(Heap, Heap, [NoCall EXCEPT !.op = "getBoundingBox", !.kit = TheKit,
                                          !.inpath = act.inpath, !.indices = act.indices,
                                          !.reports = reports, !.visited = r.visited,
                                          !.centerset = r.centerset, !.center = r.center])

\* A kit of one of six types with the operations that change its parts
\* and the actions applied to it
NextAction ==
  \/ SetPart
  \/ GetPart
  \/ SetSearchingChildren
  \/ DoAction
  \/ GetMatrix
  \/ Search
  \/ GetBoundingBox

SpecAction == InitWrite /\ [][NextAction]_vars

\* kit->setPart(partnum, node) with a node that another part of the kit
\* holds, as getPart has returned it to the caller
SetPartShared ==
  /\ Idle
  /\ \E partnum \in 1..NumParts(Heap, TheKit) : \E other \in 1..NumParts(Heap, TheKit) :
       /\ other # partnum
       /\ Heap.slot[TheKit][other] # NULL
       /\ \E r \in {setPart(Heap, TheKit, partnum, Heap.slot[TheKit][other])} :
            Done(Heap, r.h, [NoCall EXCEPT !.op = "setPart", !.kit = TheKit, !.partnum = partnum,
                                          !.node = Heap.slot[TheKit][other], !.ret = r.ret])

\* A kit of one of six types with the operations that change its parts,
\* the nodes passed being new ones or nodes the kit holds
NextShare ==
  \/ SetPart
  \/ GetPart
  \/ SetPartShared

SpecShare == InitWrite /\ [][NextShare]_vars

NextWrite ==
  \/ SetPart
  \/ GetPart
  \/ CountRefs
  \/ Write

SpecWrite == InitWrite /\ [][NextWrite]_vars

\* The kit with the operations that set the fields of its parts
NextSet ==
  \/ SetPart
  \/ GetPart
  \/ SetFields
  \/ SetString

SpecSet == Init /\ [][NextSet]_vars

-----------------------------------------------------------------------------
(* Properties                                                              *)

\* the node of part i of a kit; part 0 is the kit itself
partNode(h, kit, i) == IF i = 0 THEN kit ELSE h.slot[kit][i]

\* part j is to the right of part i in the catalog
RECURSIVE rightOf(_, _, _)
rightOf(cat, i, j) ==
  IF cat[i].rsib < 0 THEN FALSE
  ELSE IF cat[i].rsib = j THEN TRUE
  ELSE rightOf(cat, cat[i].rsib, j)

\* the parts above part i in the catalog, the kit itself excluded
RECURSIVE ancestors(_, _)
ancestors(cat, i) ==
  IF cat[i].parent = 0 THEN {} ELSE {cat[i].parent} \cup ancestors(cat, cat[i].parent)

\* the child list of part p of the kit lists the built parts below p, in the
\* order of the catalog
listsItsParts(h, kit, p) ==
  LET cat == getNodekitCatalog(h, h.typ[kit])
      par == partNode(h, kit, p)
      under == { i \in 1..Len(cat) : cat[i].parent = p /\ h.slot[kit][i] # NULL }
  IN under # {} =>
       /\ par # NULL
       /\ \A i \in under : find(h.ch[par], h.slot[kit][i]) >= 0
       /\ \A i, j \in under :
            rightOf(cat, i, j) => find(h.ch[par], h.slot[kit][i]) < find(h.ch[par], h.slot[kit][j])

\* the instance hierarchy of a kit
hierarchyOK(h, kit) == \A p \in 0..NumParts(h, kit) : listsItsParts(h, kit, p)

\* C1: in every reachable state every built part of every kit is a child of
\* its catalog parent's node (the kit itself for parent 0), and the built
\* siblings stand in that child list in their catalog right-sibling order.
C1_InstanceHierarchy == \A kit \in Kits(Heap) : hierarchyOK(Heap, kit)

\* the last call was setPart(partnum, node) with a node of a wrong type
wrongTypeSetPart ==
  /\ call.op = "setPart"
  /\ call.node # NULL
  /\ ~isDerivedFrom(pre.typ[call.node], getNodekitCatalog(pre, pre.typ[call.kit])[call.partnum].type)

\* C2: setPart(partnum, node) with a node whose type is not derived from the
\* part's catalog type fails and changes nothing: no field, no default flag,
\* no child list.
C2_WrongTypeRejected == wrongTypeSetPart => (~call.ret /\ Heap = pre)

\* C2 where the parent part of the addressed part was not built
C2_Witness ==
  /\ wrongTypeSetPart
  /\ ~call.ret
  /\ getNodekitCatalog(pre, pre.typ[call.kit])[call.partnum].parent > 0
  /\ pre.slot[call.kit][getNodekitCatalog(pre, pre.typ[call.kit])[call.partnum].parent] = NULL

\* C3: setPart(name, node) with a node of a wrong type for the public part
\* called name fails and leaves the whole kit as it was, also when the part
\* was not built before the call.
C3_WrongTypeByNameNoMutation ==
  LET cat == getNodekitCatalog(pre, pre.typ[TheKit])
      partnum == getPartNumber(cat, call.name[1])
  IN (/\ call.op = "setPartByName"
      /\ Len(call.name) = 1
      /\ partnum > 0
      /\ cat[partnum].public
      /\ call.node # NULL
      /\ ~isDerivedFrom(pre.typ[call.node], cat[partnum].type))
     => (~call.ret /\ Heap = pre)

\* C4: setPart(partnum, node) of a part whose parent part was not built
\* builds every part above it; afterwards all of them exist, and the child
\* list of each lists the built parts below it in catalog order.
C4_AncestorsBuilt ==
  LET cat == getNodekitCatalog(pre, pre.typ[call.kit])
      par == cat[call.partnum].parent
  IN (/\ call.op = "setPart"
      /\ call.node # NULL
      /\ isDerivedFrom(pre.typ[call.node], cat[call.partnum].type)
      /\ par > 0
      /\ pre.slot[call.kit][par] = NULL)
     => /\ ~aborted
        /\ call.ret
        /\ Heap.slot[call.kit][call.partnum] = call.node
        /\ \A a \in ancestors(cat, call.partnum) : Heap.slot[call.kit][a] # NULL
        /\ \A a \in ancestors(cat, call.partnum) \cup {0} : listsItsParts(Heap, call.kit, a)

\* C5: setPart(partnum, NULL) of a built part removes the part's node, and
\* only it, from the child list of the parent and empties the field; the
\* other children keep their order, and no other field or child list changes.
C5_ClearRemovesOne ==
  LET cat == getNodekitCatalog(pre, pre.typ[call.kit])
      old == pre.slot[call.kit][call.partnum]
      par == partNode(pre, call.kit, cat[call.partnum].parent)
  IN (/\ call.op = "setPart"
      /\ call.node = NULL
      /\ old # NULL)
     => /\ ~aborted
        /\ call.ret
        /\ par # NULL
        /\ find(pre.ch[par], old) >= 0
        /\ Heap.typ = pre.typ
        /\ Heap.ch = [pre.ch EXCEPT ![par] = listRemove(@, find(@, old))]
        /\ Heap.slot = [pre.slot EXCEPT ![call.kit][call.partnum] = NULL]
        /\ \A k \in 1..Len(pre.def) : \A i \in 1..Len(pre.def[k]) :
             (k # call.kit \/ i # call.partnum) => Heap.def[k][i] = pre.def[k][i]

\* C6: findPart("this", kit, ...) succeeds from every kit with every
\* makeifneeded and recsearch, with the kit unchanged, part number 0 and
\* islist FALSE, and changes nothing.
C6_ThisResolves ==
  (call.op = "findPart" /\ call.name = <<"this">>)
  => /\ call.ret
     /\ call.rkit = call.kit
     /\ call.rpartnum = 0
     /\ ~call.rislist
     /\ Heap = pre

\* C6 from a kit that is a part of another kit
C6_Witness ==
  /\ call.op = "findPart"
  /\ call.name = <<"this">>
  /\ call.kit # TheKit
  /\ call.make
  /\ call.rec
  /\ call.ret

\* the names sub.b[k] and sub.b[k].p
subB(k) == <<"sub", ".", "b", "[">> \o IndexName(k) \o <<"]">>

subBp(k) == subB(k) \o <<".", "p">>

\* the kit of part sub, its list part b and the children of b in heap h
subOf(h) == h.slot[TheKit][getPartNumber(TopCatalog, "sub")]

listOf(h) == IF subOf(h) = NULL THEN NULL ELSE h.slot[subOf(h)][getPartNumber(SubCatalog, "b")]

itemsOf(h) == IF listOf(h) = NULL THEN <<>> ELSE h.ch[listOf(h)]

\* C7: getPart("sub.b[k]", TRUE) builds part sub and its list part b where
\* they are not built, keeps them where they are; with n children in the
\* list before the call it returns child k if k < n, appends one new child
\* and returns it if k = n, and fails without a new child if k > n.  So
\* sub.b[2] is made only once sub.b[0] and sub.b[1] have been.
C7_GetListElement ==
  \A k \in 0..MaxList :
    (call.op = "getPart" /\ call.make /\ call.name = subB(k))
    => /\ ~aborted
       /\ subOf(Heap) # NULL
       /\ Heap.typ[subOf(Heap)] = "Sub"
       /\ subOf(pre) # NULL => subOf(Heap) = subOf(pre)
       /\ listOf(Heap) # NULL
       /\ Heap.typ[listOf(Heap)] = "SoNodeKitListPart"
       /\ listOf(pre) # NULL => listOf(Heap) = listOf(pre)
       /\ IF k < Len(itemsOf(pre))
          THEN call.rnode = itemsOf(pre)[k + 1] /\ itemsOf(Heap) = itemsOf(pre)
          ELSE IF k = Len(itemsOf(pre))
          THEN /\ call.rnode > Len(pre.typ)
               /\ Heap.typ[call.rnode] = "Item"
               /\ itemsOf(Heap) = Append(itemsOf(pre), call.rnode)
          ELSE call.rnode = NULL /\ itemsOf(Heap) = itemsOf(pre)

\* C7 where sub.b[2] is made after sub.b[0] and sub.b[1]
C7_Witness ==
  /\ call.op = "getPart"
  /\ call.make
  /\ call.name = subB(2)
  /\ Len(itemsOf(pre)) = 2
  /\ Len(itemsOf(Heap)) = 3
  /\ call.rnode = itemsOf(Heap)[3]

\* C8: findPart("sub.b[k].p") through a built list of n children fails for
\* k < 0 and k > n; for k = n it fails without makeifneeded and appends
\* exactly one child with it; for k < n it steps into child k and leaves the
\* list as it was.
C8_StepThroughList ==
  \A k \in ListIndexes :
    (call.op = "findPart" /\ call.kit = TheKit /\ call.name = subBp(k) /\ listOf(pre) # NULL)
    => LET n == Len(itemsOf(pre)) IN
       /\ ~aborted
       /\ (k < 0 \/ k > n) => (~call.ret /\ itemsOf(Heap) = itemsOf(pre))
       /\ (k = n /\ ~call.make) => (~call.ret /\ itemsOf(Heap) = itemsOf(pre))
       /\ (k = n /\ call.make) =>
            (call.ret /\ Len(itemsOf(Heap)) = n + 1 /\ call.rkit = itemsOf(Heap)[n + 1]
             /\ SubSeq(itemsOf(Heap), 1, n) = itemsOf(pre))
       /\ (k >= 0 /\ k < n) =>
            (itemsOf(Heap) = itemsOf(pre) /\ call.rkit = itemsOf(pre)[k + 1])

\* C9: a get, a set of fields or a path to sub.b[k] with k out of bounds
\* fails and leaves the list part as it was: its field, its default flag
\* and its children.
C9_OutOfBoundsNoEffect ==
  \A k \in ListIndexes :
    LET n == Len(itemsOf(pre))
        make == IF call.op = "set" THEN TRUE ELSE call.make
        b == getPartNumber(SubCatalog, "b")
    IN (/\ call.op \in {"getPart", "set", "createPathToPart"}
        /\ call.name = subB(k)
        /\ subOf(pre) # NULL
        /\ (k < 0 \/ k > n \/ (k = n /\ ~make)))
       => /\ ~aborted
          /\ ~call.ret
          /\ subOf(Heap) = subOf(pre)
          /\ listOf(Heap) = listOf(pre)
          /\ Heap.def[subOf(pre)][b] = pre.def[subOf(pre)][b]
          /\ itemsOf(Heap) = itemsOf(pre)

\* nodes a and b head subgraphs of the same structure: the same types, the
\* same fields built, the same numbers of children
RECURSIVE sameStructure(_, _, _)
sameStructure(h, a, b) ==
  /\ h.typ[a] = h.typ[b]
  /\ Len(h.slot[a]) = Len(h.slot[b])
  /\ Len(h.ch[a]) = Len(h.ch[b])
  /\ \A i \in 1..Len(h.slot[a]) :
       /\ (h.slot[a][i] = NULL) = (h.slot[b][i] = NULL)
       /\ (h.slot[a][i] # NULL /\ h.slot[b][i] # NULL) => sameStructure(h, h.slot[a][i], h.slot[b][i])
  /\ \A i \in 1..Len(h.ch[a]) : sameStructure(h, h.ch[a][i], h.ch[b][i])

\* the nodes of the subgraph of node n
nodesOf(h, n) == LET v == visit(h, <<n>>, <<>>) IN { v[i] : i \in 1..Len(v) }

\* C10: the copy of a kit has the structure of the kit (the same parts built,
\* lists of the same lengths, at every depth) and shares no node with it.
C10_CopyEquivalent ==
  call.op = "copy"
  => /\ ~aborted
     /\ cpy.ret # TheKit
     /\ sameStructure(cpy.h, TheKit, cpy.ret)
     /\ nodesOf(cpy.h, TheKit) \cap nodesOf(cpy.h, cpy.ret) = {}

\* nm names a part of a kit of type t, or of a leaf part of it that is a kit
RECURSIVE knownName(_, _)
knownName(t, nm) ==
  LET cat == classcatalog[t] IN
  \/ getPartNumber(cat, nm) # NameNotFound
  \/ \E i \in 1..Len(cat) :
       cat[i].leaf /\ isDerivedFrom(cat[i].type, "SoBaseKit") /\ knownName(cat[i].type, nm)

\* C13: getPart(name, makeifneeded) with the name of no part of the kit or
\* of its leaf kits returns NULL; with the name of a part of the catalog
\* that is not built it returns NULL without makeifneeded, and with
\* makeifneeded it builds the part and every part above it that is not
\* built and returns the part's node.
C13_GetPart ==
  LET cat == getNodekitCatalog(pre, pre.typ[TheKit])
      p == getPartNumber(cat, call.name[1])
  IN (call.op = "getPart" /\ Len(call.name) = 1)
     => /\ ~knownName(pre.typ[TheKit], call.name[1]) => call.rnode = NULL
        /\ (p > 0 /\ pre.slot[TheKit][p] = NULL /\ ~call.make) => call.rnode = NULL
        /\ (p > 0 /\ pre.slot[TheKit][p] = NULL /\ call.make)
             => /\ ~aborted
                /\ call.rnode # NULL
                /\ Heap.slot[TheKit][p] = call.rnode
                /\ \A a \in ancestors(cat, p) : Heap.slot[TheKit][a] # NULL

\* the last call named a single part of the kit under test that is hidden
\* from the public operations: private or, if nonleaf counts, not a leaf
hiddenPartNamed(nonleaf) ==
  LET cat == getNodekitCatalog(pre, pre.typ[TheKit])
      p == getPartNumber(cat, call.name[1])
  IN /\ Len(call.name) = 1
     /\ p >= 0
     /\ ~isPublic(cat, p) \/ (nonleaf /\ ~isLeaf(cat, p))

constructed(h, kit) ==
  LET cat == getNodekitCatalog(h, h.typ[kit])
      made == { i \in 1..Len(cat) : ~cat[i].nullbydefault }
  IN /\ \A i \in made :
          /\ h.slot[kit][i] # NULL
          /\ h.def[kit][i]
          /\ \A a \in ancestors(cat, i) : h.slot[kit][a] # NULL
     /\ \A i \in 1..Len(cat) :
          (cat[i].nullbydefault /\ \A j \in made : i \notin ancestors(cat, j))
          => h.slot[kit][i] = NULL

\* C18: a new kit has every part that is not null by default built, with
\* the parts above it, and its field flagged default; a part that is null
\* by default and above no such part is not built.
C18_Constructed == call.op = "construct" => (~aborted /\ constructed(Heap, call.rnode))

\* C18 for a kit with a part made by default below two parts that are not
C18_Witness ==
  /\ call.op = "construct"
  /\ Heap.typ[call.rnode] = "Top"
  /\ Heap.slot[call.rnode][3] # NULL
  /\ Heap.slot[call.rnode][4] = NULL

\* C19: setPart(partnum, node) of a part that is not built puts the node in
\* the child list of the parent right before the node of the nearest built
\* part to the right in the catalog, and at the end when no part to the
\* right is built.
C19_InsertBeforeRightSibling ==
  LET kit == call.kit
      cat == getNodekitCatalog(pre, pre.typ[kit])
      p == call.partnum
      before == IF partNode(pre, kit, cat[p].parent) = NULL THEN <<>>
                ELSE pre.ch[partNode(pre, kit, cat[p].parent)]
      right == { j \in 1..Len(cat) : rightOf(cat, p, j) /\ pre.slot[kit][j] # NULL }
      nearest == CHOOSE j \in right : \A k \in right : k = j \/ rightOf(cat, j, k)
  IN (/\ call.op = "setPart"
      /\ call.node # NULL
      /\ isDerivedFrom(pre.typ[call.node], cat[p].type)
      /\ pre.slot[kit][p] = NULL)
     => /\ ~aborted
        /\ call.ret
        /\ partNode(Heap, kit, cat[p].parent) # NULL
        /\ Heap.ch[partNode(Heap, kit, cat[p].parent)] =
             IF right = {} THEN Append(before, call.node)
             ELSE listInsert(before, call.node, find(before, pre.slot[kit][nearest]))

\* C20: setPart(partnum, node) of a built part with another node puts the
\* node where the old one was in the child list of the parent: the list
\* keeps its length and every other child its place.
C20_ReplaceInPlace ==
  LET kit == call.kit
      cat == getNodekitCatalog(pre, pre.typ[kit])
      p == call.partnum
      old == pre.slot[kit][p]
      par == partNode(pre, kit, cat[p].parent)
  IN (/\ call.op = "setPart"
      /\ call.node # NULL
      /\ isDerivedFrom(pre.typ[call.node], cat[p].type)
      /\ old # NULL
      /\ old # call.node)
     => /\ ~aborted
        /\ call.ret
        /\ par # NULL
        /\ find(pre.ch[par], old) >= 0
        /\ Heap.slot[kit][p] = call.node
        /\ Heap.ch[par] = listSet(pre.ch[par], find(pre.ch[par], old), call.node)

\* the shape, the geomSeparator and list element k of part sub.b of the kit
\* under test, by the number a block is known by: -1, -2 and k
blockTarget(b) ==
  IF b.part = "shape" THEN -1 ELSE IF b.part = "geomSeparator" THEN -2 ELSE b.idx

targetNode(h, t) ==
  IF t = -1 THEN h.slot[TheKit][getPartNumber(TopCatalog, "shape")]
  ELSE IF t = -2 THEN h.slot[TheKit][getPartNumber(TopCatalog, "geomSeparator")]
  ELSE IF t < Len(itemsOf(h)) THEN itemsOf(h)[t + 1]
  ELSE NULL

\* a block is in order for a list of n elements: it has its brace, names a
\* part that exists, an index from 0 to n, and its text is fields only
blockInOrder(b, n) ==
  /\ b.brace
  /\ b.part # "nosuch"
  /\ b.part = "b" => (b.idx >= 0 /\ b.idx <= n)
  /\ \A i \in 1..Len(b.body) : b.body[i] \in {" ", "v"}

\* what a text of blocks asks for, block by block from block i on, with n
\* the length of the list and vals the targets given a value so far: the
\* blocks up to the first that is not in order
RECURSIVE asked(_, _, _, _)
asked(bs, i, n, vals) ==
  IF i > Len(bs) THEN [ok |-> TRUE, n |-> n, vals |-> vals, failed |-> 0]
  ELSE IF ~blockInOrder(bs[i], n) THEN [ok |-> FALSE, n |-> n, vals |-> vals, failed |-> i]
  ELSE asked(bs, i + 1, IF bs[i].part = "b" /\ bs[i].idx = n THEN n + 1 ELSE n,
             vals \cup {blockTarget(bs[i])})

\* the value of the fields of target t in heap h; 0 where it is not built
valueOf(h, t) == IF h.typ = <<>> \/ targetNode(h, t) = NULL THEN 0 ELSE h.fld[targetNode(h, t)]

\* C15: set(string) takes the blocks from left to right.  It returns TRUE
\* only if every block is in order.  At the first block that is not (no
\* opening brace, no such part, list index out of bounds, text that is no
\* field) it returns FALSE: no later block has had an effect on the list or
\* on a field, and the fields set by the blocks before it keep their values.
C15_SetString ==
  call.op = "setString"
  => LET e == asked(call.blocks, 1, Len(itemsOf(pre)), {})
         touched == e.vals \cup (IF e.failed > 0 THEN {blockTarget(call.blocks[e.failed])} ELSE {})
     IN /\ call.ret => e.ok
        /\ ~e.ok => ~call.ret
        /\ Len(itemsOf(Heap)) <= e.n
        /\ \A t \in ((-2)..(-1)) \cup (0..(MaxList - 1)) :
             t \notin touched => valueOf(Heap, t) = valueOf(pre, t)
        /\ ~aborted => /\ Len(itemsOf(Heap)) = e.n
                       /\ call.ret = e.ok
                       /\ \A t \in e.vals : valueOf(Heap, t) = 1

\* C15 where the second block fails after the first has set a field
C15_Witness ==
  /\ call.op = "setString"
  /\ Len(call.blocks) = 2
  /\ call.blocks[1].part = "b"
  /\ call.blocks[1].idx = Len(itemsOf(pre))
  /\ call.blocks[2].part = "nosuch"
  /\ ~call.ret
  /\ ~aborted
  /\ valueOf(Heap, call.blocks[1].idx) = 1
  /\ valueOf(pre, call.blocks[1].idx) = 0

\* the kits of heap h that have writedata
counted(h) == { n \in Kits(h) : h.wd[n] # <<>> }

\* the place of field name in the reordered table: 0 for a field that is no
\* part, 1 for a leaf part, 2 for a part that is no leaf
tableClass(cat, name) ==
  IF getPartNumber(cat, name) < 0 THEN 0
  ELSE IF isLeaf(cat, getPartNumber(cat, name)) THEN 1 ELSE 2

\* the fields of a kit of type t that writing may take: those that are no
\* parts and the public parts
eligible(t) ==
  { FieldData(t)[i] : i \in { j \in 1..Len(FieldData(t)) :
        \/ getPartNumber(classcatalog[t], FieldData(t)[j]) < 0
        \/ isPublic(classcatalog[t], getPartNumber(classcatalog[t], FieldData(t)[j])) } }

\* the place of field name in the declaration of the fields of type t
declared(t, name) == CHOOSE i \in 1..Len(FieldData(t)) : FieldData(t)[i] = name

\* C16: the reordered field table of a kit holds every field that is no
\* part and every public part exactly once: first the fields that are no
\* parts, then the public leaf parts, then the public parts that are no
\* leaves, each group in the order of declaration.
C16_TableOrder ==
  \A kit \in counted(Heap) :
    LET t == Heap.typ[kit]
        table == Heap.wd[kit][1]
    IN /\ { table[i] : i \in 1..Len(table) } = eligible(t)
       /\ Len(table) = Cardinality(eligible(t))
       /\ \A i, j \in 1..Len(table) :
            i < j => \/ tableClass(classcatalog[t], table[i]) < tableClass(classcatalog[t], table[j])
                     \/ /\ tableClass(classcatalog[t], table[i]) = tableClass(classcatalog[t], table[j])
                        /\ declared(t, table[i]) < declared(t, table[j])

\* C16 where the table of the kit differs from the declaration
C16_Witness ==
  /\ call.op = "countRefs"
  /\ Heap.typ[TheKit] = "Top"
  /\ Heap.wd[TheKit] = << <<"active", "shape", "transform", "sub", "colorIndex", "geomSeparator">> >>

\* C17: no private part is in the reordered field table of a kit, and none
\* is among the fields a write has written.
C17_PrivateNeverWritten ==
  /\ \A kit \in counted(Heap) :
       \A i \in 1..Len(Heap.wd[kit][1]) :
         LET p == getPartNumber(getNodekitCatalog(Heap, Heap.typ[kit]), Heap.wd[kit][1][i]) IN
         p > 0 => isPublic(getNodekitCatalog(Heap, Heap.typ[kit]), p)
  /\ call.op = "write"
     => \A i \in 1..Len(call.emitted) :
          LET cat == getNodekitCatalog(Heap, Heap.typ[call.emitted[i].kit])
              p == getPartNumber(cat, call.emitted[i].field)
          IN p > 0 => isPublic(cat, p)

\* C17 where the kit written holds a private part that is not default
C17_Witness ==
  /\ call.op = "write"
  /\ Heap.typ[TheKit] = "Top"
  /\ Heap.slot[TheKit][1] # NULL
  /\ ~Heap.def[TheKit][1]
  /\ Len(call.emitted) > 0

\* C11: a second COUNT_REFS pass over a kit that has not changed since the
\* first changes no default flag of any kit and leaves the reordered field
\* tables as they are: the decisions of the first pass stand.
C11_CountRefsTwice ==
  (call.op = "countRefs" /\ pre.wref[TheKit] > 0)
  => /\ ~aborted
     /\ Heap.def = pre.def
     /\ Heap.wd = pre.wd

\* C11 where the first pass has decided to write a part
C11_Witness ==
  /\ call.op = "countRefs"
  /\ pre.wref[TheKit] = 1
  /\ pre.wd[TheKit] # <<>>
  /\ \E i \in 1..Len(pre.def[TheKit]) : ~pre.def[TheKit][i] /\ pre.slot[TheKit][i] # NULL
  /\ Heap.def = pre.def

\* field name of the kit under test is among the fields written
emits(name) == \E i \in 1..Len(call.emitted) : call.emitted[i] = [kit |-> TheKit, field |-> name]

\* C12 as stated: the write of a kit of the two parts topSeparator and shape
\* that is as its constructor left it writes topSeparator, not default,
\* and shape.
C12_UntouchedPairWritten ==
  (call.op = "write" /\ \E t \in {"Pair", "PairNull"} : pre = constructedKit(t))
  => /\ emits("topSeparator")
     /\ ~Heap.def[TheKit][1]
     /\ emits("shape")

\* C12, amended: the write of such a kit writes topSeparator and shape when
\* topSeparator is null by default, its field not default since it was made
\* as the parent of shape; when the constructor makes topSeparator as a part
\* of its own, both fields are default and stay so, and neither is written.
C12_UntouchedPair ==
  /\ (call.op = "write" /\ pre = constructedKit("PairNull"))
     => /\ emits("topSeparator")
        /\ ~Heap.def[TheKit][1]
        /\ emits("shape")
        /\ ~Heap.def[TheKit][2]
  /\ (call.op = "write" /\ pre = constructedKit("Pair"))
     => /\ call.emitted = <<>>
        /\ Heap.def[TheKit] = <<TRUE, TRUE>>

\* C12 where the constructor has made topSeparator as a part of its own
C12_Witness ==
  /\ call.op = "write"
  /\ pre = constructedKit("Pair")
  /\ Heap.slot[TheKit][1] # NULL
  /\ Heap.slot[TheKit][2] # NULL
  /\ call.emitted = <<>>

\* C21: setPart(partnum, node) with a node that is a child of the node of
\* the parent part already, and not the node of the part, returns FALSE and
\* leaves the field of the part and the children of the parent as they
\* were; with the node the part holds it returns TRUE and changes nothing.
C21_SetPartOfChild ==
  call.op = "setPart" /\ call.node # NULL /\ ~typeMismatch(pre, TheKit, call.partnum, call.node)
  => LET parentIdx == getNodekitCatalog(pre, pre.typ[TheKit])[call.partnum].parent
         parent == IF parentIdx = 0 THEN TheKit ELSE pre.slot[TheKit][parentIdx]
     IN /\ (/\ pre.slot[TheKit][call.partnum] # call.node
            /\ parent # NULL
            /\ find(pre.ch[parent], call.node) >= 0)
           => /\ ~call.ret
              /\ ~aborted
              /\ Heap.slot[TheKit][call.partnum] = pre.slot[TheKit][call.partnum]
              /\ Heap.ch[parent] = pre.ch[parent]
        /\ pre.slot[TheKit][call.partnum] = call.node
           => /\ call.ret
              /\ Heap = pre

\* C21, where the node of the parent part is there before the call
C21_SetPartOfChildBelowParent ==
  call.op = "setPart" /\ call.node # NULL /\ ~typeMismatch(pre, TheKit, call.partnum, call.node)
  => LET parentIdx == getNodekitCatalog(pre, pre.typ[TheKit])[call.partnum].parent
         parent == IF parentIdx = 0 THEN TheKit ELSE pre.slot[TheKit][parentIdx]
     IN parent # NULL
        => /\ (pre.slot[TheKit][call.partnum] # call.node /\ find(pre.ch[parent], call.node) >= 0)
              => /\ ~call.ret
                 /\ ~aborted
                 /\ Heap.slot[TheKit][call.partnum] = pre.slot[TheKit][call.partnum]
                 /\ Heap.ch[parent] = pre.ch[parent]
           /\ pre.slot[TheKit][call.partnum] = call.node => call.ret /\ Heap = pre

\* setPart was given the node of another part below the same parent
C21_WitnessChild ==
  /\ call.op = "setPart" /\ call.node # NULL
  /\ ~typeMismatch(pre, TheKit, call.partnum, call.node)
  /\ pre.slot[TheKit][call.partnum] # call.node
  /\ find(pre.ch[TheKit], call.node) >= 0
  /\ getNodekitCatalog(pre, pre.typ[TheKit])[call.partnum].parent = 0
  /\ ~call.ret

\* setPart was given the node the part holds and the parent part was missing
C21_WitnessOrphan ==
  /\ call.op = "setPart" /\ call.node # NULL
  /\ pre.slot[TheKit][call.partnum] = call.node
  /\ getNodekitCatalog(pre, pre.typ[TheKit])[call.partnum].parent # 0
  /\ pre.slot[TheKit][getNodekitCatalog(pre, pre.typ[TheKit])[call.partnum].parent] = NULL

\* C22: a findPart that looks for a name its kit does not know in the leaf
\* nodekits of the kit and does not find it leaves every leaf nodekit part
\* that was empty before the call empty, and hands back the kit it was
\* called with.
C22_ProbedKitsRemoved ==
  /\ call.op = "findPart" /\ call.rec /\ ~aborted /\ ~call.ret
  /\ call.name[1] \notin {"this"} \cup {getNodekitCatalog(pre, pre.typ[call.kit])[i].name :
                                        i \in 1..NumParts(pre, call.kit)}
  => /\ \A i \in 1..NumParts(pre, call.kit) :
          /\ getNodekitCatalog(pre, pre.typ[call.kit])[i].leaf
          /\ isDerivedFrom(getNodekitCatalog(pre, pre.typ[call.kit])[i].type, "SoBaseKit")
          /\ pre.slot[call.kit][i] = NULL
          => Heap.slot[call.kit][i] = NULL
     /\ call.rkit = call.kit

\* a kit was made for the search and the name was not found in it
C22_Witness ==
  /\ call.op = "findPart" /\ call.rec /\ ~aborted /\ ~call.ret
  /\ call.name = <<"nosuch">> /\ call.kit = TheKit
  /\ pre.slot[TheKit][5] = NULL
  /\ Heap.slot[TheKit][5] = NULL
  /\ \E n \in 1..Len(Heap.typ) : n > Len(pre.typ) /\ Heap.typ[n] = "Sub"

\* C23: a part name whose list index is no number, is negative or has no
\* closing bracket is not found by findPart, and getPart returns no node for
\* it.
C23_MalformedIndexNotFound ==
  /\ call.op \in {"findPart", "getPart"} /\ ~aborted
  /\ \E i \in 1..Len(call.name) :
       /\ call.name[i] = "["
       /\ \/ i = Len(call.name)
          \/ ~isDigit(call.name[i + 1])
          \/ \A j \in (i + 1)..Len(call.name) : call.name[j] # "]"
  => ~call.ret

\* C24 as stated: a part that findPart, getPart or createPathToPart made,
\* in a kit that was there before the call, has its field flagged default
\* after the call.
C24_MadePartsStayDefault ==
  call.op \in {"findPart", "getPart", "createPathToPart"} /\ ~aborted
  => \A k \in Kits(pre) : \A i \in 1..NumParts(pre, k) :
       pre.slot[k][i] = NULL /\ Heap.slot[k][i] # NULL => Heap.def[k][i]

\* C24, amended: every part an operation put into a field that was empty
\* has its field flagged not default after the operation, whether a caller
\* set it or makePart made it; in a kit made by the operation the only
\* parts flagged default are parts that are not null by default, and after
\* a construction each of these is there and flagged default.
C24_OnlyConstructorFlagsDefault ==
  call.op \in {"construct", "setPart", "setPartByName", "findPart", "getPart", "createPathToPart"}
  /\ ~aborted
  => /\ \A k \in Kits(pre) : \A i \in 1..NumParts(pre, k) :
          pre.slot[k][i] = NULL /\ Heap.slot[k][i] # NULL => ~Heap.def[k][i]
     /\ \A k \in Kits(Heap) \ Kits(pre) : \A i \in 1..NumParts(Heap, k) :
          Heap.slot[k][i] # NULL /\ Heap.def[k][i]
          => ~getNodekitCatalog(Heap, Heap.typ[k])[i].nullbydefault
     /\ call.op = "construct" /\ call.rnode \in Kits(Heap)
        => \A i \in 1..NumParts(Heap, call.rnode) :
             ~getNodekitCatalog(Heap, Heap.typ[call.rnode])[i].nullbydefault
             => Heap.slot[call.rnode][i] # NULL /\ Heap.def[call.rnode][i]

\* getPart made a part and its parent part in the kit it was called for,
\* and a kit with a part its constructor made
C24_Witness ==
  /\ call.op = "getPart" /\ ~aborted /\ call.ret
  /\ \E i \in 1..NumParts(pre, TheKit) :
       /\ pre.slot[TheKit][i] = NULL /\ Heap.slot[TheKit][i] # NULL
       /\ getNodekitCatalog(pre, pre.typ[TheKit])[i].parent # 0
       /\ pre.slot[TheKit][getNodekitCatalog(pre, pre.typ[TheKit])[i].parent] = NULL
  /\ \E k \in Kits(Heap) \ Kits(pre) : \E i \in 1..NumParts(Heap, k) : Heap.def[k][i]

C26_PathIsChain ==
  (call.op = "createPathToPart" /\ ~aborted /\ call.ret)
  => /\ call.rpath[1] = call.kit
     /\ \A i \in 1..(Len(call.rpath) - 1) :
          LET a == call.rpath[i]
              b == call.rpath[i + 1]
          IN IF a < 0 THEN find(Heap.ch[0 - a], b) >= 0
             ELSE IF b < 0 THEN b = getContainerNode(a)
             ELSE find(Heap.ch[a], b) >= 0

\* C26 for a call that finds the kit with each part in the children of its
\* parent part
C26_PathIsChainOfValidKit ==
  (call.op = "createPathToPart" /\ ~aborted /\ call.ret /\ \A k \in Kits(pre) : hierarchyOK(pre, k))
  => /\ call.rpath[1] = call.kit
     /\ \A i \in 1..(Len(call.rpath) - 1) :
          \/ call.rpath[i] < 0 /\ find(Heap.ch[0 - call.rpath[i]], call.rpath[i + 1]) >= 0
          \/ call.rpath[i] > 0 /\ call.rpath[i + 1] = getContainerNode(call.rpath[i])
          \/ call.rpath[i] > 0 /\ call.rpath[i + 1] > 0
             /\ find(Heap.ch[call.rpath[i]], call.rpath[i + 1]) >= 0

\* a path through two made ancestors, a list part and its container to a
\* part of a child of the list
C26_Witness ==
  /\ call.op = "createPathToPart" /\ ~aborted /\ call.ret /\ call.make
  /\ call.name = subBp(0)
  /\ pre.slot[TheKit][2] = NULL
  /\ Len(call.rpath) = 8

\* C27: after the reference count of a kit whose fields had not been
\* counted, an empty part field of the kit is flagged default if and only if
\* the part is null by default, whatever its flag was before.
C27_EmptyFields ==
  (call.op = "countRefs" /\ ~aborted)
  => \A k \in Kits(pre) :
       (pre.wd[k] = <<>> /\ Heap.wd[k] # <<>>)
       => \A i \in 1..NumParts(pre, k) :
            Heap.slot[k][i] = NULL
            => (Heap.def[k][i] <=> getNodekitCatalog(pre, pre.typ[k])[i].nullbydefault)

\* the fields of a kit were counted, one of them the empty field of a
\* part that is null by default and was set to no node, another the empty
\* field of a part that is not null by default
C27_Witness ==
  /\ call.op = "countRefs" /\ ~aborted
  /\ pre.wd[TheKit] = <<>> /\ Heap.wd[TheKit] # <<>>
  /\ \E i, j \in 1..NumParts(pre, TheKit) :
       /\ pre.slot[TheKit][i] = NULL /\ ~pre.def[TheKit][i] /\ Heap.def[TheKit][i]
       /\ getNodekitCatalog(pre, pre.typ[TheKit])[i].nullbydefault
       /\ pre.slot[TheKit][j] = NULL /\ ~Heap.def[TheKit][j]
       /\ ~getNodekitCatalog(pre, pre.typ[TheKit])[j].nullbydefault

C29_DefaultTypeOnly ==
  (call.op = "countRefs" /\ ~aborted)
  => \A k \in Kits(pre) :
       (pre.wd[k] = <<>> /\ Heap.wd[k] # <<>>)
       => \A i \in 1..NumParts(pre, k) :
            (/\ ~getNodekitCatalog(pre, pre.typ[k])[i].leaf
             /\ pre.slot[k][i] # NULL /\ ~pre.def[k][i] /\ Heap.def[k][i])
            => /\ pre.typ[pre.slot[k][i]] = getNodekitCatalog(pre, pre.typ[k])[i].deftype
               /\ pre.fld[pre.slot[k][i]] = 0
               /\ Len(pre.ch[pre.slot[k][i]]) = 0

\* C29 for the type of the node itself: the field of a part that is no
\* leaf and was not default is flagged default by the reference count of
\* the kit only if the node is a group without children and with no field
\* set
C29_EmptyGroupsOnly ==
  (call.op = "countRefs" /\ ~aborted)
  => \A k \in Kits(pre) :
       (pre.wd[k] = <<>> /\ Heap.wd[k] # <<>>)
       => \A i \in 1..NumParts(pre, k) :
            (/\ ~getNodekitCatalog(pre, pre.typ[k])[i].leaf
             /\ pre.slot[k][i] # NULL /\ ~pre.def[k][i] /\ Heap.def[k][i])
            => /\ isDerivedFrom(pre.typ[pre.slot[k][i]], "SoGroup")
               /\ pre.fld[pre.slot[k][i]] = 0
               /\ Len(pre.ch[pre.slot[k][i]]) = 0

\* C30: after the reference count of a kit every part of the kit that
\* holds a node below a public parent part that holds a node and whose
\* field is not default has a field that is not default.
C30_ParentForcesWrite ==
  (call.op = "countRefs" /\ ~aborted)
  => \A k \in Kits(pre) :
       (pre.wd[k] = <<>> /\ Heap.wd[k] # <<>>)
       => \A i \in 1..NumParts(pre, k) :
            LET parent == getNodekitCatalog(pre, pre.typ[k])[i].parent IN
            (/\ Heap.slot[k][i] # NULL
             /\ parent > 0
             /\ Heap.slot[k][parent] # NULL
             /\ ~Heap.def[k][parent]
             /\ getNodekitCatalog(pre, pre.typ[k])[parent].public)
            => ~Heap.def[k][i]

\* C30, the parts that are not forced: a part whose field was default stays
\* default below the kit itself and below a parent part whose field is
\* default after the pass
C30_NotForced ==
  (call.op = "countRefs" /\ ~aborted)
  => \A k \in Kits(pre) :
       (pre.wd[k] = <<>> /\ Heap.wd[k] # <<>>)
       => \A i \in 1..NumParts(pre, k) :
            LET parent == getNodekitCatalog(pre, pre.typ[k])[i].parent IN
            (/\ Heap.slot[k][i] # NULL /\ pre.def[k][i]
             /\ (parent = 0 \/ Heap.def[k][parent]))
            => Heap.def[k][i]

C31_WitnessDiscarded ==
  /\ call.op = "write" /\ ~aborted /\ Lookups(pre, TheKit) = {}
  /\ \E i \in 1..NumParts(pre, TheKit) :
       LET n == pre.slot[TheKit][i]
           counted0 == addWriteReference(pre, TheKit, FALSE, {})
       IN /\ n # NULL /\ isKit(pre, n) /\ counted0.def[TheKit][i]
          /\ counted0.wd[n] # <<>>
          /\ ~forceChildDrivenWriteRefs(counted0, n).ret

\* C32: after a copy, for every kit copied, every part below another part
\* is, in the copy, the very node that the copy of the parent part lists at
\* the place the part has in the original's parent part, and it is listed
\* once; the copy has as many nodes as the original, its parts are listed
\* by their parents, and its child lists are the copies of the original's
\* child lists in the same order.
C32_CopiedPartsAreChildren ==
  (call.op = "copy" /\ ~aborted)
  => /\ Cardinality(nodesOf(cpy.h, cpy.ret)) = Cardinality(nodesOf(cpy.h, TheKit))
     /\ \A k \in DOMAIN cpy.dict :
          LET c == cpy.dict[k] IN
          /\ Len(cpy.h.ch[c]) = Len(cpy.h.ch[k])
          /\ \A j \in 1..Len(cpy.h.ch[k]) : cpy.h.ch[c][j] = cpy.dict[cpy.h.ch[k][j]]
          /\ isKit(cpy.h, k)
             => LET cat == getNodekitCatalog(cpy.h, cpy.h.typ[k]) IN
                /\ hierarchyOK(cpy.h, c)
                /\ \A i \in 1..Len(cat) :
                     (cat[i].parent > 0 /\ cpy.h.slot[c][i] # NULL)
                     => LET srcgroup == cpy.h.slot[k][cat[i].parent]
                            dstgroup == cpy.h.slot[c][cat[i].parent]
                            childidx == find(cpy.h.ch[srcgroup], cpy.h.slot[k][i])
                        IN /\ childidx >= 0
                           /\ childidx < Len(cpy.h.ch[dstgroup])
                           /\ cpy.h.ch[dstgroup][childidx + 1] = cpy.h.slot[c][i]
                           /\ Cardinality({ j \in 1..Len(cpy.h.ch[dstgroup]) :
                                              cpy.h.ch[dstgroup][j] = cpy.h.slot[c][i] }) = 1

\* C32 where the kit copied has two parts built below one part and a
\* nested kit whose list holds a kit
C32_Witness ==
  /\ call.op = "copy" /\ ~aborted
  /\ cpy.h.slot[cpy.ret][2] # NULL
  /\ Len(cpy.h.ch[cpy.h.slot[cpy.ret][2]]) = 2
  /\ cpy.h.slot[cpy.ret][3] # NULL
  /\ cpy.h.slot[cpy.ret][5] # NULL
  /\ cpy.h.slot[cpy.h.slot[cpy.ret][5]][1] # NULL
  /\ Len(cpy.h.ch[cpy.h.slot[cpy.h.slot[cpy.ret][5]][1]]) > 0

\* C33: when a copy returns, no node is left with a reference that the
\* passes of the copy took and did not release: every node is referenced by
\* the fields and the child lists that hold it only.
C33_TemporaryRefsReleased ==
  (call.op = "copy" /\ ~aborted) => \A m \in 1..Len(cpy.h.typ) : cpy.h.ref[m] = 0

\* C34: after a copy, every part field of every copied kit has the default
\* flag it had when the copy of the field values was made, which is the
\* flag of the field of the original: the parts that setPart installs again
\* leave no field that was default not default.
C34_FlagsRestored ==
  (call.op = "copy" /\ ~aborted)
  => \A k \in DOMAIN cpy.dict :
       isKit(cpy.h, k)
       => \A i \in 1..NumParts(cpy.h, k) : cpy.h.def[cpy.dict[k]][i] = cpy.h.def[k][i]

\* C34 where the copy has a part built in a default field, as the
\* constructor made it, and a part built in a field that is not default
C34_Witness ==
  /\ call.op = "copy" /\ ~aborted
  /\ \E i, j \in 1..NumParts(cpy.h, cpy.ret) :
       /\ cpy.h.slot[cpy.ret][i] # NULL /\ cpy.h.def[cpy.ret][i]
       /\ cpy.h.slot[cpy.ret][j] # NULL /\ ~cpy.h.def[cpy.ret][j]

\* C35: doAction forwards the action to the children that the path of the
\* action names, in the order of the path, when the kit is in the path, and
\* to every child in the order of the child list otherwise; getMatrix
\* forwards it (to the children named) only when the kit is in the path;
\* search forwards it, as doAction does, only when the action has found
\* nothing yet and the children of kits are searched.
C35_Forwarding ==
  LET list == pre.ch[TheKit]
      named == /\ Len(call.visited) = Len(call.indices)
               /\ \A k \in 1..Len(call.indices) : call.visited[k] = list[call.indices[k] + 1]
      forwarded == IF call.inpath THEN named ELSE call.visited = list
  IN /\ call.op = "doAction" => forwarded
     /\ call.op = "getMatrix" => IF call.inpath THEN named ELSE call.visited = <<>>
     /\ call.op = "search"
        => IF ~call.found /\ searchchildren THEN forwarded ELSE call.visited = <<>>

\* C35 where the path names the second of two children only
C35_Witness ==
  /\ call.op = "doAction"
  /\ Len(pre.ch[TheKit]) = 2
  /\ call.inpath
  /\ call.indices = <<1>>
  /\ call.visited = <<pre.ch[TheKit][2]>>

\* C35 where a search is forwarded to two children
C35_WitnessSearch ==
  /\ call.op = "search"
  /\ ~call.inpath
  /\ Len(call.visited) = 2

\* C36: getBoundingBox forwards the action to one child at a time, from
\* the first child to the last one (the last one in the path when the kit is
\* in the path); it sets a center exactly when a child it forwarded to has
\* set one, and the center is the sum of the centers set divided by the
\* number of the children that set one.
C36_CenterAveraged ==
  call.op = "getBoundingBox"
  => LET list == pre.ch[TheKit]
         last == IF call.inpath THEN call.indices[Len(call.indices)] + 1 ELSE Len(list)
         reporting == { i \in 1..last : call.reports[i] # 0 }
         RECURSIVE sum(_)
         sum(S) == IF S = {} THEN 0
                   ELSE LET i == CHOOSE j \in S : TRUE IN call.reports[i] + sum(S \ {i})
     IN /\ call.visited = [i \in 1..last |-> list[i]]
        /\ call.centerset <=> reporting # {}
        /\ call.centerset => call.center = <<sum(reporting), Cardinality(reporting)>>

\* C36 where one of two children sets a center
C36_Witness ==
  /\ call.op = "getBoundingBox"
  /\ Len(call.visited) = 2
  /\ call.reports[1] = 0
  /\ call.reports[2] = 2
  /\ call.center = <<2, 1>>

\* C37: every operation that resolves, builds, sets or copies returns, with
\* a result that says whether it succeeded, for every name and every
\* catalog, that of a kit with a leaf part of its own type included: no
\* call goes on without end.
C37_Terminates == call.op # "none" => ~call.overflow

\* C38: a getPart, findPart or createPathToPart that is passed FALSE for
\* makeifneeded and returns leaves every part field, every default flag and
\* every child list (that of a list part included) of every node of the kit
\* as it was when it was called.
C38_NoMakeNoChange ==
  (call.op \in {"getPart", "findPart", "createPathToPart"} /\ ~call.make /\ ~aborted)
  => \A n \in 1..Len(pre.typ) :
       /\ instancelist[n] = pre.slot[n]
       /\ isdefault[n] = pre.def[n]
       /\ children[n] = pre.ch[n]

\* C39: no assert of setPart(partnum, node) fails, whatever state the kit
\* is in when it is called: the node a part holds is in the child list of
\* the node of its parent part, and so is the node of a built right sibling.
C39_SetPartAsserts ==
  LET kit == call.kit
      cat == getNodekitCatalog(pre, pre.typ[kit])
      parent == partNode(Heap, kit, cat[call.partnum].parent)
      oldnode == pre.slot[kit][call.partnum]
      rightSibling == getRightSiblingIndex(pre, kit, call.partnum)
  IN call.op = "setPart"
     => /\ ~aborted
        /\ (call.ret /\ oldnode # NULL /\ oldnode # call.node)
           => parent # NULL /\ find(pre.ch[parent], oldnode) >= 0
        /\ (call.ret /\ oldnode = NULL /\ call.node # NULL /\ rightSibling >= 0)
           => find(Heap.ch[parent], pre.slot[kit][rightSibling]) >= 0

\* C40: whatever setPart calls were made, no node is held by two parts of
\* one kit and no node stands twice in one child list.
C40_ExclusiveOwnership ==
  ~aborted
  => /\ \A kit \in Kits(Heap) : \A i, j \in 1..NumParts(Heap, kit) :
          (i # j /\ instancelist[kit][i] # NULL) => instancelist[kit][i] # instancelist[kit][j]
     /\ \A n \in 1..Len(types) : \A a, b \in 1..Len(children[n]) :
          a # b => children[n][a] # children[n][b]

====
